---- MODULE Spec2Model ----
(***************************************************************************)
(* Model of the SAP metadata analyzer of ABAPify                           *)
(* (src/abapify/sap/metadata_analyzer.py) over a SAPConnection whose RFC   *)
(* functions are served by a dictionary backend.                           *)
(*                                                                         *)
(* The backend (the SAP dictionary: which tables exist and the rows of     *)
(* their foreign-key table DD08V_TAB) is chosen in Init and is the         *)
(* environment of the analyzer.  Every public method of MetadataAnalyzer   *)
(* is one action; the outcome of each remote call it makes is drawn from   *)
(* a fault plan given to the action.                                       *)
(***************************************************************************)
EXTENDS Integers, Sequences, FiniteSets, TLC

\* ------------------------------------------------------------------ bounds
\* largest max_depth handed to find_related_tables
MaxDepth == 3
\* longest list of names handed to analyze_multiple_tables / generate_full_analysis
MaxNames == 3
\* most tables whose structure fetch (resp. foreign-key fetch) errors in one call
MaxFaults == 1

\* ------------------------------------------------------------- the backend
Tables == {"ZCUSTOMER", "ZORDER", "ZITEM"}

\* CHECKTABLE of a DD08V_TAB row: a table name, or "" for a row without one
CheckTables == Tables \cup {""}

\* the order in which the backend lists the DD08V_TAB rows of a table
RowOrder == <<"ZCUSTOMER", "", "ZORDER", "ZITEM">>

VARIABLES
    sap_tables,          \* backend: table -> "table" when DDIF_TABL_GET knows it, else the
                         \*          answer for an unknown table: "empty" or "no_header"
    sap_forkey,          \* backend: table -> the CHECKTABLE values of its DD08V_TAB rows
    table_cache,         \* MetadataAnalyzer._table_cache
    relationship_cache,  \* MetadataAnalyzer._relationship_cache
    first_table,         \* table -> what the first successful analyze_table returned since the last clear
    last                 \* the call that has just returned, until its caller takes the
                         \* result: its arguments, outcome and remote calls

\* what the analyzer runs in
VARIABLES
    rfc_client,          \* the RFCClient of the SAPConnection: its _connection, and whether
                         \* it has an _http_fallback (config.base_url is set)
    scope                \* the connection scope (rfc_connection / connection_context) that is
                         \* open or was left last: where it stands, who opened it, for what

\* what the command line works on
VARIABLES
    files,               \* the file system: path -> content, for the paths written so far
    environ,             \* os.environ: the variables that are set, each with its value
    llm_client,          \* the LLMClient made last: its _providers and _default_provider
    menu                 \* the interactive session: where main() stands, the option chosen
                         \* last and how its handler ended

environment_vars == <<rfc_client, scope, files, environ, llm_client, menu>>

vars == <<sap_tables, sap_forkey, table_cache, relationship_cache, first_table, last,
          environment_vars>>

\* ------------------------------------------------------------ small helpers
Range(s) == {s[i] : i \in 1..Len(s)}

NoDup(s) == \A i, j \in 1..Len(s) : i # j => s[i] # s[j]

RECURSIVE SeqsUpTo(_, _)
SeqsUpTo(S, n) ==
    IF n = 0 THEN {<<>>}
    ELSE LET shorter == SeqsUpTo(S, n - 1)
         IN shorter \cup {Append(s, x) : s \in {t \in shorter : Len(t) = n - 1}, x \in S}

\* Python dicts as functions with a finite domain
EmptyDict == [x \in {} |-> ""]

Put(d, k, v) == [x \in (DOMAIN d) \cup {k} |-> IF x = k THEN v ELSE d[x]]

\* Python truthiness of a str
TruthyStr(s) == s # ""

\* str given as its characters: truthiness and str.startswith of one character
TruthyChars(cs) == Len(cs) > 0

StartsWith(cs, c) == Len(cs) > 0 /\ cs[1] = c

\* ------------------------------------------------------------- fault plans
\* What the transport does during one call of an analyzer method:
\*   down          every connect() fails (RFCClient.connect raises SAPConnectionError)
\*   struct_error  tables whose DDIF_TABL_GET call raises
\*   forkey_error  tables whose DDIF_FORKEY_GET call raises
FaultSets(S) == {F \in SUBSET S : Cardinality(F) <= MaxFaults}

\* the plans that differ in what a method asking about the tables S can meet
Plans(S) ==
    [down : {FALSE}, struct_error : FaultSets(S), forkey_error : FaultSets(S)]
    \cup
    [down : {TRUE}, struct_error : {{}}, forkey_error : {{}}]

\* the same for a method that only makes foreign-key calls
ForkeyPlans(S) == {p \in Plans(S) : p.struct_error = {}}

NoFault == [down |-> FALSE, struct_error |-> {}, forkey_error |-> {}]

\* ------------------------------------------------- the backend's documents
\* the rows of DD03P_TAB (FIELDNAME and LENG as their characters): CLIENT and
\* ID of the simulated DDIF_TABL_GET, and the two kinds of row the field loop
\* of analyze_table drops, an include marker and a row without a field name
RowCLIENT == [FIELDNAME |-> <<"C", "L", "I", "E", "N", "T">>, KEYFLAG |-> "X", LENG |-> <<"3">>]

RowID == [FIELDNAME |-> <<"I", "D">>, KEYFLAG |-> "X", LENG |-> <<"1", "0">>]

RowInclude == [FIELDNAME |-> <<".", "I", "N", "C">>, KEYFLAG |-> "", LENG |-> <<"0">>]

RowUnnamed == [FIELDNAME |-> <<>>, KEYFLAG |-> "", LENG |-> <<"0">>]

\* DD03P_TAB: the field rows of table t, by what the dictionary holds for it:
\*   "table"      CLIENT and ID with the two dropped rows between them
\*   "markers"    dropped rows only
\*   "reordered"  ID before CLIENT, a dropped row with a LENG that is no
\*                number first, and a row without the keys LENG and KEYFLAG last
\*   "bad_leng"   a row to keep whose LENG is no number
\*   "no_leng"    a row to keep whose LENG is the empty string
DD03P_TAB(t) ==
    CASE sap_tables[t] = "markers" ->
           <<RowInclude, RowUnnamed>>
      [] sap_tables[t] = "reordered" ->
           <<[RowInclude EXCEPT !.LENG = <<"1", "A">>], RowID, RowCLIENT,
             [FIELDNAME |-> <<"N", "A", "M", "E">>]>>
      [] sap_tables[t] = "bad_leng" ->
           <<RowCLIENT, [RowID EXCEPT !.LENG = <<"1", "A">>]>>
      [] sap_tables[t] = "no_leng" ->
           <<[RowCLIENT EXCEPT !.LENG = <<>>], RowID>>
      [] OTHER ->
           <<RowCLIENT, RowInclude, RowUnnamed, RowID>>

DD02V_WA(t) == [TABNAME |-> t, TABCLASS |-> "TRANSP", CLIDEP |-> "A"]

\* the answer of DDIF_TABL_GET for table t: the document with header and
\* rows, or for an unknown table the empty document or one without DD02V_WA
TablGetDoc(t) ==
    IF sap_tables[t] = "empty" THEN EmptyDict
    ELSE IF sap_tables[t] = "no_header" THEN [k \in {"DD03P_TAB"} |-> <<>>]
    ELSE [k \in {"DD02V_WA", "DD03P_TAB"} |->
            IF k = "DD02V_WA" THEN DD02V_WA(t) ELSE DD03P_TAB(t)]

\* the answer of DDIF_FORKEY_GET for table t: its DD08V_TAB rows
ForkeyRows(t) ==
    LET cts == SelectSeq(RowOrder, LAMBDA c : c \in sap_forkey[t])
    IN  [i \in 1..Len(cts) |-> [CHECKTABLE |-> cts[i]]]

\* ------------------------------------------------------------ SAPConnection
NoExc == ""

\* SAPConnection.get_table_structure: rfc_connection() connects, then
\* RFCClient.get_table_structure calls DDIF_TABL_GET and wraps any error
GetTableStructure(t, plan) ==
    IF plan.down THEN [exc |-> "SAPConnectionError", doc |-> EmptyDict]
    ELSE IF t \in plan.struct_error THEN [exc |-> "SAPRFCError", doc |-> EmptyDict]
    ELSE [exc |-> NoExc, doc |-> TablGetDoc(t)]

\* with self.connection.rfc_connection() as rfc: rfc.call_function('DDIF_FORKEY_GET', ...)
CallForkeyGet(t, plan) ==
    IF plan.down THEN [exc |-> "SAPConnectionError", rows |-> <<>>]
    ELSE IF t \in plan.forkey_error THEN [exc |-> "SAPRFCError", rows |-> <<>>]
    ELSE [exc |-> NoExc, rows |-> ForkeyRows(t)]

\* --------------------------------------------------------------- the models
SAPRelationship(from, to) ==
    [from_table |-> from, to_table |-> to,
     relationship_type |-> "FOREIGN_KEY", cardinality |-> "N:1"]

\* int(s) of a str given as its characters: the decimal digits, read from
\* the left; IsInt tells whether int(s) returns (it raises ValueError if not)
Digits == <<"0", "1", "2", "3", "4", "5", "6", "7", "8", "9">>

IsInt(cs) == Len(cs) > 0 /\ \A i \in 1..Len(cs) : cs[i] \in Range(Digits)

RECURSIVE IntOf(_)
IntOf(cs) ==
    IF cs = <<>> THEN 0
    ELSE 10 * IntOf(SubSeq(cs, 1, Len(cs) - 1))
         + (CHOOSE d \in 0..9 : cs[Len(cs)] \in Range(Digits) => Digits[d + 1] = cs[Len(cs)])

\* SAPTableField(...) of a row: field_data.get('LENG', 0), field_data.get('KEYFLAG') == 'X'
SAPTableField(row) ==
    [name      |-> row.FIELDNAME,
     length    |-> IF "LENG" \in DOMAIN row THEN IntOf(row.LENG) ELSE 0,
     key_field |-> ("KEYFLAG" \in DOMAIN row /\ row.KEYFLAG = "X")]

SAPTable(t, fields) == [name |-> t, fields |-> fields, foreign_keys |-> <<>>]

\* Python's None where a SAPTable is expected
NoTable == [name |-> "", fields |-> <<>>, foreign_keys |-> <<>>]

\* ------------------------------------------------------- MetadataAnalyzer
\* The analyzer's memory while a method runs:
\*   tc, rc   _table_cache, _relationship_cache
\*   ft       first successful analyze_table result per name
\*   sf, ff   the calls of get_table_structure / DDIF_FORKEY_GET made, in order,
\*            each with the table asked for and the exception it raised
\*   built    the names for which a SAPTable object was constructed, in order
Heap ==
    [tc |-> table_cache, rc |-> relationship_cache, ft |-> first_table,
     sf |-> <<>>, ff |-> <<>>, built |-> <<>>]

\* The value of a statement sequence "x = e; body": Only({body : x \in {e}})
\* computes e once and binds x to its value.
Only(S) == CHOOSE x \in S : TRUE

\* a loop that makes a relationship of every row
RelationshipsOfAllRows(t, rows) ==
    [i \in 1..Len(rows) |-> SAPRelationship(t, rows[i].CHECKTABLE)]

\* the loop over DD08V_TAB: one relationship per row with a CHECKTABLE
ForkeyRelationships(t, rows) ==
    Only({ [i \in 1..Len(kept) |-> SAPRelationship(t, kept[i].CHECKTABLE)] :
           kept \in {SelectSeq(rows, LAMBDA fk : TruthyStr(fk.CHECKTABLE))} })

\* what the try block of _analyze_table_relationships leaves in "relationships":
\* an exception leaves the list as it was before the call, empty
ForkeyOutcome(t, r) ==
    IF r.exc # NoExc THEN <<>> ELSE ForkeyRelationships(t, r.rows)

\* a handler that lets the error of the fetch through
RelationshipsReraises(exc) == exc

\* what gets past "except Exception" in _analyze_table_relationships: nothing
RelationshipsRaises(exc) == NoExc

\* a cache that keeps the lists of the fetches that answered only
CachesAnswersOnly(h, t, rels, fetch_exc) ==
    IF fetch_exc # NoExc THEN h ELSE [h EXCEPT !.rc = Put(@, t, rels)]

\* "self._relationship_cache[table_name] = relationships", whatever the fetch did
CacheRelationships(h, t, rels, fetch_exc) == [h EXCEPT !.rc = Put(@, t, rels)]

\* _analyze_table_relationships: [h, exc, rels]; the cache is written after the
\* try block, so only when nothing got past it
AnalyzeTableRelationships(h, t, plan) ==
    IF t \in DOMAIN h.rc
    THEN [h |-> h, exc |-> NoExc, rels |-> h.rc[t]]
    ELSE Only({ Only({ Only({
           IF exc # NoExc
           THEN [h |-> h1, exc |-> exc, rels |-> <<>>]
           ELSE Only({ [h    |-> CacheRelationships(h1, t, rels, r.exc),
                        exc  |-> NoExc,
                        rels |-> rels] :
                       rels \in {ForkeyOutcome(t, r)} }) :
           exc \in {RelationshipsRaises(r.exc)} }) :
           h1 \in {[h EXCEPT !.ff = Append(@, [name |-> t, exc |-> r.exc])]} }) :
           r \in {CallForkeyGet(t, plan)} })

\* a field loop that skips the rows without a field name only
KeepsMarkers(fd) == TruthyChars(fd.FIELDNAME)

\* "if field_data.get('FIELDNAME') and not field_data.get('FIELDNAME').startswith('.')"
KeepsRow(fd) == TruthyChars(fd.FIELDNAME) /\ ~StartsWith(fd.FIELDNAME, ".")

\* the field loop of analyze_table
ConvertFields(rows) ==
    Only({ [i \in 1..Len(kept) |-> SAPTableField(kept[i])] :
           kept \in {SelectSeq(rows, KeepsRow)} })

\* whether the field loop raises: int() of the LENG of a row it keeps
ConversionRaises(rows) ==
    \E i \in 1..Len(rows) :
        KeepsRow(rows[i]) /\ "LENG" \in DOMAIN rows[i] /\ ~IsInt(rows[i].LENG)

\* handlers that let every exception through as it is
RaisesAsIs(exc) == exc

\* "except SAPTableNotFoundError: raise" and "except Exception as e: raise
\* SAPMetadataError(...)": what analyze_table raises for what its body raised
Reraises(exc) == IF exc = "SAPTableNotFoundError" THEN exc ELSE "SAPMetadataError"

\* an analyze_table without the lookup
TableCacheNever(h, t) == FALSE

\* a lookup that takes only a Table with foreign keys for a hit
HitsDetailedOnly(h, t) == t \in DOMAIN h.tc /\ h.tc[t].foreign_keys # <<>>

\* the lookup that opens analyze_table
TableCacheHit(h, t) == t \in DOMAIN h.tc

\* a test that forgets the table header
ReportsNoTableWhenEmpty(doc) == DOMAIN doc = {}

\* "if not structure_data or 'DD02V_WA' not in structure_data"
ReportsNoTable(doc) == DOMAIN doc = {} \/ "DD02V_WA" \notin DOMAIN doc

\* "self._table_cache[table_name] = table" (and the record of the first result)
CacheTable(h, t, table) ==
    [h EXCEPT !.tc = Put(@, t, table),
              !.ft = IF t \in DOMAIN @ THEN @ ELSE Put(@, t, table)]

\* analyze_table from the construction of the SAPTable on: [h, exc, table];
\* rel.dict() of a relationship is the record of its fields
BuildTable(h, t, include_relationships, plan, doc) ==
    Only({
      IF include_relationships
      THEN Only({
             IF r.exc # NoExc
             THEN [h |-> r.h, exc |-> Reraises(r.exc), table |-> NoTable]
             ELSE Only({ [h     |-> CacheTable(r.h, t, table),
                          exc   |-> NoExc,
                          table |-> table] :
                         table \in {[built EXCEPT !.foreign_keys = r.rels]} }) :
             r \in {AnalyzeTableRelationships(
                       [h EXCEPT !.built = Append(@, t)], t, plan)} })
      ELSE [h     |-> CacheTable([h EXCEPT !.built = Append(@, t)], t, built),
            exc   |-> NoExc,
            table |-> built] :
      built \in {SAPTable(t, ConvertFields(doc["DD03P_TAB"]))} })

\* analyze_table: [h, exc, table]
AnalyzeTable(h, t, include_relationships, plan) ==
    IF TableCacheHit(h, t)
    THEN [h |-> h, exc |-> NoExc, table |-> h.tc[t]]
    ELSE Only({ Only({
           IF f.exc # NoExc
           THEN [h |-> h1, exc |-> Reraises(f.exc), table |-> NoTable]
           ELSE IF ReportsNoTable(f.doc)
           THEN [h |-> h1, exc |-> Reraises("SAPTableNotFoundError"), table |-> NoTable]
           ELSE IF ConversionRaises(f.doc["DD03P_TAB"])
           THEN [h |-> h1, exc |-> Reraises("ValueError"), table |-> NoTable]
           ELSE BuildTable(h1, t, include_relationships, plan, f.doc) :
           h1 \in {[h EXCEPT !.sf = Append(@, [name |-> t, exc |-> f.exc])]} }) :
         f \in {GetTableStructure(t, plan)} })

\* a loop with the first except clause only
SkipsNotFoundOnly(exc) == exc = "SAPTableNotFoundError"

\* the except clauses of the loop of analyze_multiple_tables:
\* "except SAPTableNotFoundError" and "except Exception" both skip the name
SkipsName(exc) == exc = "SAPTableNotFoundError" \/ exc # NoExc

\* analyze_multiple_tables, from the i-th name on: [h, exc, tables]
RECURSIVE MultipleFrom(_, _, _, _, _)
MultipleFrom(h, table_names, i, tables, plan) ==
    IF i > Len(table_names)
    THEN [h |-> h, exc |-> NoExc, tables |-> tables]
    ELSE Only({
           IF r.exc = NoExc
           THEN Only({ MultipleFrom(r.h, table_names, i + 1, ts, plan) :
                       ts \in {Append(tables, r.table)} })
           ELSE IF SkipsName(r.exc)
           THEN MultipleFrom(r.h, table_names, i + 1, tables, plan)
           ELSE [h |-> r.h, exc |-> r.exc, tables |-> tables] :
           r \in {AnalyzeTable(h, table_names[i], TRUE, plan)} })

AnalyzeMultipleTables(h, table_names, plan) ==
    MultipleFrom(h, table_names, 1, <<>>, plan)

\* find_related_tables.  The traversal's locals:
\*   related, to_process, processed   related_tables, tables_to_process, processed_tables
\*   expanded                         the tables whose relationships were obtained, in order

\* a traversal without the guard
NeverProcessed(st, current_table) == FALSE

\* the guard that skips a table of the level that was processed before
AlreadyProcessed(st, current_table) == current_table \in st.processed

\* queueing that stops one level early
QueuesNextEarly(depth, max_depth) == depth < max_depth - 2

\* whether the targets found at this depth are queued for the next level
QueuesNext(depth, max_depth) == depth < max_depth - 1

\* targets taken without looking at processed_tables
AllTargets(rels, processed) == {rels[i].to_table : i \in 1..Len(rels)}

\* "for rel in relationships": the targets that are not processed yet
FreshTargets(rels, processed) == {rels[i].to_table : i \in 1..Len(rels)} \ processed

\* the body of "for current_table in current_level_tables"; an exception that
\* reaches the traversal ends it
ProcessTable(st, current_table, depth, max_depth, plan) ==
    IF st.exc # NoExc \/ AlreadyProcessed(st, current_table)
    THEN st
    ELSE Only({ Only({ Only({
           [h          |-> r.h,
            exc        |-> r.exc,
            related    |-> st.related \cup fresh,
            to_process |-> IF QueuesNext(depth, max_depth)
                           THEN st.to_process \cup fresh
                           ELSE st.to_process,
            processed  |-> processed,
            expanded   |-> Append(st.expanded, current_table)] :
           fresh \in {FreshTargets(r.rels, processed)} }) :
           r \in {AnalyzeTableRelationships(st.h, current_table, plan)} }) :
           processed \in {st.processed \cup {current_table}} })

\* one level, its tables taken in the order level[1], level[2], ...
RECURSIVE ProcessLevel(_, _, _, _, _, _)
ProcessLevel(st, level, i, depth, max_depth, plan) ==
    IF i > Len(level) THEN st
    ELSE Only({ ProcessLevel(st1, level, i + 1, depth, max_depth, plan) :
                st1 \in {ProcessTable(st, level[i], depth, max_depth, plan)} })

\* a loop that runs until nothing is left to process
LoopRunsUntilEmpty(st, depth, max_depth) == st.to_process # {}

\* "for depth in range(max_depth)" with its "if not tables_to_process: break"
LoopRuns(st, depth, max_depth) == depth < max_depth /\ st.to_process # {}

\* the levels from depth on; order is the iteration order of the sets
RECURSIVE Levels(_, _, _, _, _)
Levels(st, depth, max_depth, order, plan) ==
    IF st.exc # NoExc \/ ~LoopRuns(st, depth, max_depth)
    THEN st
    ELSE Only({ Only({ Levels(st1, depth + 1, max_depth, order, plan) :
                       st1 \in {ProcessLevel([st EXCEPT !.to_process = {}],
                                             level, 1, depth, max_depth, plan)} }) :
                level \in {SelectSeq(order, LAMBDA t : t \in st.to_process)} })

\* list(related_tables): the elements of the set, each once, in iteration order
ListOf(set, order) == SelectSeq(order, LAMBDA t : t \in set)

\* find_related_tables: [h, exc, related, expanded]
FindRelatedTables(h, table_name, max_depth, order, plan) ==
    Only({ [h        |-> st.h,
            exc      |-> st.exc,
            related  |-> IF st.exc # NoExc THEN <<>> ELSE ListOf(st.related, order),
            expanded |-> st.expanded] :
           st \in {Levels([h |-> h, exc |-> NoExc, related |-> {},
                           to_process |-> {table_name}, processed |-> {},
                           expanded |-> <<>>],
                          0, max_depth, order, plan)} })

\* RFCClient.search_objects answers one object per object type
SearchObjects(object_type) == [OBJECT_TYPE |-> object_type, DEVCLASS |-> "ZLOCAL"]

\* analyze_custom_objects over SAPConnection.search_custom_objects: the connect
\* of rfc_connection() may fail, and any error gives []
AnalyzeCustomObjects(plan) ==
    IF plan.down THEN <<>>
    ELSE <<SearchObjects("PROG"), SearchObjects("CLAS"), SearchObjects("FUGR")>>

\* a relationship loop over the names that were asked for
RequestedNames(tables, table_names) == table_names

\* the names the relationship loop of generate_full_analysis asks about:
\* "for table in tables: ... (table.name)", the tables that were analyzed
CollectedNames(tables, table_names) == [i \in 1..Len(tables) |-> tables[i].name]

\* "for table in tables: all_relationships.extend(...)": [h, exc, rels]
RECURSIVE CollectFrom(_, _, _, _, _)
CollectFrom(h, names, i, all_relationships, plan) ==
    IF i > Len(names)
    THEN [h |-> h, exc |-> NoExc, rels |-> all_relationships]
    ELSE Only({
           IF r.exc # NoExc
           THEN [h |-> r.h, exc |-> r.exc, rels |-> all_relationships]
           ELSE Only({ CollectFrom(r.h, names, i + 1, all, plan) :
                       all \in {all_relationships \o r.rels} }) :
           r \in {AnalyzeTableRelationships(h, names[i], plan)} })

NoResult == [tables |-> <<>>, relationships |-> <<>>, custom_objects |-> <<>>]

\* generate_full_analysis: [h, exc, result]
GenerateFullAnalysis(h, table_names, include_custom_objects, plan) ==
    Only({
      IF m.exc # NoExc
      THEN [h |-> m.h, exc |-> m.exc, result |-> NoResult]
      ELSE Only({
             IF c.exc # NoExc
             THEN [h |-> c.h, exc |-> c.exc, result |-> NoResult]
             ELSE [h |-> c.h, exc |-> NoExc,
                   result |-> [tables         |-> m.tables,
                               relationships  |-> c.rels,
                               custom_objects |-> IF include_custom_objects
                                                  THEN AnalyzeCustomObjects(plan)
                                                  ELSE <<>>]] :
             c \in {CollectFrom(m.h, CollectedNames(m.tables, table_names),
                                1, <<>>, plan)} }) :
      m \in {AnalyzeMultipleTables(h, table_names, plan)} })

\* a clear_cache that forgets the relationship cache
ClearsTablesOnly(h) == [h EXCEPT !.tc = EmptyDict, !.ft = EmptyDict]

\* clear_cache
ClearCache(h) == [h EXCEPT !.tc = EmptyDict, !.rc = EmptyDict, !.ft = EmptyDict]

\* ------------------------------------------------------------------ inputs
\* lists of names: every list of up to two names, and the longer lists that
\* name no table twice
NameLists == {s \in SeqsUpTo(Tables, MaxNames) : Len(s) <= 2 \/ NoDup(s)}

\* the orders in which Python may iterate a set of table names
Orders == {o \in [1..Cardinality(Tables) -> Tables] : NoDup(o)}

\* ------------------------------------------------------------- RFCClient
\* "PYRFC_AVAILABLE = False"
PYRFC_AVAILABLE == FALSE

\* RFCClient.__init__
NewRFCClient(has_base_url) ==
    [connection |-> "None", http_fallback |-> (~PYRFC_AVAILABLE /\ has_base_url)]

\* RFCClient.connect: [client, exc]; http_ok is the answer of
\* _http_fallback.test_connection()
Connect(client, http_ok) ==
    IF PYRFC_AVAILABLE
    THEN [client |-> client, exc |-> "NotImplementedError"]
    ELSE IF client.http_fallback
    THEN IF http_ok
         THEN [client |-> [client EXCEPT !.connection = "http_fallback"], exc |-> NoExc]
         ELSE [client |-> client, exc |-> "SAPConnectionError"]
    ELSE [client |-> client, exc |-> "SAPConnectionError"]

\* a disconnect that only writes its log line
DisconnectLogsOnly(client) == client

\* RFCClient.disconnect
Disconnect(client) ==
    IF client.connection # "None" THEN [client EXCEPT !.connection = "None"] ELSE client

\* a call_function that also answers DDIF_FORKEY_GET
SupportsForkeyGet(client, function_name, http_ok) ==
    IF client.connection = "None" THEN "SAPRFCError"
    ELSE IF function_name = "RFC_PING"
    THEN IF client.http_fallback /\ http_ok THEN NoExc ELSE "SAPRFCError"
    ELSE IF function_name = "RFC_READ_TABLE"
    THEN IF client.http_fallback THEN NoExc ELSE "SAPRFCError"
    ELSE IF function_name \in {"RFC_SYSTEM_INFO", "DDIF_TABL_GET", "DDIF_FORKEY_GET"}
    THEN NoExc
    ELSE "SAPRFCError"

\* RFCClient.call_function: the exception it raises, NoExc when it answers
CallFunction(client, function_name, http_ok) ==
    IF client.connection = "None" THEN "SAPRFCError"
    ELSE IF function_name = "RFC_PING"
    THEN IF client.http_fallback /\ http_ok THEN NoExc ELSE "SAPRFCError"
    ELSE IF function_name = "RFC_SYSTEM_INFO" THEN NoExc
    ELSE IF function_name = "RFC_READ_TABLE"
    THEN IF client.http_fallback THEN NoExc ELSE "SAPRFCError"
    ELSE IF function_name = "DDIF_TABL_GET" THEN NoExc
    ELSE "SAPRFCError"

\* the operations that run inside a scope, named by the method whose body the
\* scope is: five of SAPConnection, two of MetadataAnalyzer
ConnectionOperations ==
    {"test_connection", "get_system_info", "get_table_data",
     "get_table_structure", "search_custom_objects"}

AnalyzerOperations == {"_analyze_table_relationships", "search_custom_tables"}

\* the RFC function the body of the scope calls; "" when it calls none
\* (search_objects answers without a call)
FunctionOf(op) ==
    CASE op = "test_connection"               -> "RFC_PING"
      [] op = "get_system_info"               -> "RFC_SYSTEM_INFO"
      [] op = "get_table_data"                -> "RFC_READ_TABLE"
      [] op = "search_custom_tables"          -> "RFC_READ_TABLE"
      [] op = "get_table_structure"           -> "DDIF_TABL_GET"
      [] op = "_analyze_table_relationships"  -> "DDIF_FORKEY_GET"
      [] OTHER                                -> ""

\* how the body of the scope is left: by an exception, by a return statement
\* inside the with block, or by reaching its end (test_connection, whose
\* is_connected() catches the error of the ping)
BodyOutcome(op, client, http_ok) ==
    Only({ IF op = "test_connection" THEN [leaving |-> "end", exc |-> NoExc]
           ELSE IF FunctionOf(op) # "" /\ exc # NoExc
           THEN [leaving |-> "raise", exc |-> exc]
           ELSE [leaving |-> "return", exc |-> NoExc] :
           exc \in {CallFunction(client, FunctionOf(op), http_ok)} })

\* the methods that open scopes and the operations each of them runs in one:
\* a call on the SAPConnection runs one, an analyzer method any number
Methods ==
    {"SAPConnection", "analyze_table", "analyze_multiple_tables", "find_related_tables",
     "search_custom_tables", "analyze_custom_objects", "generate_full_analysis"}

ScopesOf(method) ==
    CASE method = "SAPConnection"           -> ConnectionOperations
      [] method = "analyze_table"           -> {"get_table_structure", "_analyze_table_relationships"}
      [] method = "analyze_multiple_tables" -> {"get_table_structure", "_analyze_table_relationships"}
      [] method = "find_related_tables"     -> {"_analyze_table_relationships"}
      [] method = "search_custom_tables"    -> {"search_custom_tables"}
      [] method = "analyze_custom_objects"  -> {"search_custom_objects"}
      [] OTHER -> {"get_table_structure", "_analyze_table_relationships",
                   "search_custom_objects"}

NoScope == [pc |-> "out", method |-> "", op |-> "", leaving |-> "", exc |-> NoExc]

\* entering connection_context: "if not self._connection: self.connect()", then
\* the body; a failed connect goes straight to the finally clause
EnterScope(method, op) ==
    \E http_ok \in BOOLEAN :
      \E c \in {IF rfc_client.connection = "None"
                THEN Connect(rfc_client, http_ok)
                ELSE [client |-> rfc_client, exc |-> NoExc]} :
        /\ rfc_client' = c.client
        /\ scope' = [pc      |-> IF c.exc = NoExc THEN "body" ELSE "finally",
                     method  |-> method,
                     op      |-> op,
                     leaving |-> IF c.exc = NoExc THEN "" ELSE "connect",
                     exc     |-> c.exc]

\* a method is called and opens its first scope
OpenScope ==
    /\ scope.pc = "out"
    /\ \E method \in Methods : \E op \in ScopesOf(method) : EnterScope(method, op)
    /\ UNCHANGED <<sap_tables, sap_forkey, table_cache, relationship_cache, first_table, last,
                   files, environ, llm_client, menu>>

\* the body of the with block
RunBody ==
    /\ scope.pc = "body"
    /\ \E http_ok \in BOOLEAN :
         \E b \in {BodyOutcome(scope.op, rfc_client, http_ok)} :
           scope' = [scope EXCEPT !.pc = "finally", !.leaving = b.leaving, !.exc = b.exc]
    /\ UNCHANGED <<sap_tables, sap_forkey, table_cache, relationship_cache, first_table, last,
                   rfc_client, files, environ, llm_client, menu>>

\* "finally: self.disconnect()"
LeaveScope ==
    /\ scope.pc = "finally"
    /\ rfc_client' = Disconnect(rfc_client)
    /\ scope' = [scope EXCEPT !.pc = "left"]
    /\ UNCHANGED <<sap_tables, sap_forkey, table_cache, relationship_cache, first_table, last,
                   files, environ, llm_client, menu>>

\* an analyzer method goes on after a scope (it has handled what the scope
\* raised) and opens the next one
NextScope ==
    /\ scope.pc = "left"
    /\ scope.method # "SAPConnection"
    /\ \E op \in ScopesOf(scope.method) : EnterScope(scope.method, op)
    /\ UNCHANGED <<sap_tables, sap_forkey, table_cache, relationship_cache, first_table, last,
                   files, environ, llm_client, menu>>

\* the method returns or raises to its caller
MethodEnds ==
    /\ scope.pc = "left"
    /\ scope' = NoScope
    /\ UNCHANGED <<sap_tables, sap_forkey, table_cache, relationship_cache, first_table, last,
                   rfc_client, files, environ, llm_client, menu>>

\* application code calls the public RFCClient.connect() itself
DirectConnect ==
    /\ scope.pc = "out"
    /\ rfc_client.connection = "None"
    /\ \E http_ok \in BOOLEAN : rfc_client' = Connect(rfc_client, http_ok).client
    /\ UNCHANGED <<sap_tables, sap_forkey, table_cache, relationship_cache, first_table, last,
                   scope, files, environ, llm_client, menu>>

\* SAPConnection.close
Close ==
    /\ scope.pc = "out"
    /\ rfc_client' = Disconnect(rfc_client)
    /\ UNCHANGED <<sap_tables, sap_forkey, table_cache, relationship_cache, first_table, last,
                   scope, files, environ, llm_client, menu>>

\* no LLMClient has been constructed
NoClient == [providers |-> {}, default_provider |-> ""]

\* main() has not been entered
NoMenu == [pc |-> "off", choice |-> -1, option |-> "", outcome |-> "", ended_by |-> ""]

\* the command line before any command has run
ShellAtRest ==
    /\ files = EmptyDict
    /\ environ = EmptyDict
    /\ llm_client = NoClient
    /\ menu = NoMenu

\* the analyzer's environment while the analyzer is looked at alone
EnvironmentAtRest ==
    /\ rfc_client = NewRFCClient(TRUE)
    /\ scope = NoScope
    /\ ShellAtRest

\* ------------------------------------------------------------------- state
Call(op) ==
    [op |-> op, name |-> "", names |-> <<>>, flag |-> FALSE, depth |-> 0,
     exc |-> NoExc, table |-> NoTable, tables |-> <<>>, related |-> <<>>,
     relationships |-> <<>>, custom_objects |-> <<>>,
     sf |-> <<>>, ff |-> <<>>, built |-> <<>>, expanded |-> <<>>]

\* the log of a call's remote calls and constructions
Logged(c, h) == [c EXCEPT !.sf = h.sf, !.ff = h.ff, !.built = h.built]

\* the dictionaries the analyzer is run against
Known == [t \in Tables |-> "table"]

Dictionaries ==
    { [tables |-> [Known EXCEPT !["ZITEM"] = "empty"],
       forkey |-> [t \in Tables |-> IF t = "ZORDER" THEN {"ZCUSTOMER"} ELSE {}]],
      [tables |-> Known,
       forkey |-> [t \in Tables |->
                     IF t = "ZORDER" THEN {"ZCUSTOMER", ""}
                     ELSE IF t = "ZCUSTOMER" THEN {"ZITEM"}
                     ELSE {"ZORDER"}]],
      [tables |-> [Known EXCEPT !["ZCUSTOMER"] = "no_header"],
       forkey |-> [t \in Tables |->
                     IF t = "ZITEM" THEN {"ZITEM", "ZORDER", "ZCUSTOMER"}
                     ELSE IF t = "ZORDER" THEN {"ZCUSTOMER"}
                     ELSE {}]] }

Fresh ==
    /\ table_cache = EmptyDict
    /\ relationship_cache = EmptyDict
    /\ first_table = EmptyDict
    /\ last = Call("idle")
    /\ EnvironmentAtRest

Init ==
    /\ \E d \in Dictionaries : sap_tables = d.tables /\ sap_forkey = d.forkey
    /\ Fresh

\* the analyzer's memory after a method has run
Store(h) ==
    /\ table_cache' = h.tc
    /\ relationship_cache' = h.rc
    /\ first_table' = h.ft
    /\ UNCHANGED <<sap_tables, sap_forkey, environment_vars>>

\* the single-threaded caller: no call starts before the last one was taken
Idle == last.op = "idle"

AnalyzeTableCall(t, f, plan) ==
    \E h0 \in {Heap} : \E r \in {AnalyzeTable(h0, t, f, plan)} :
        /\ Store(r.h)
        /\ last' = Logged([Call("analyze_table") EXCEPT
                             !.name = t, !.flag = f, !.exc = r.exc, !.table = r.table],
                          r.h)

AnalyzeMultipleTablesCall(names, plan) ==
    \E h0 \in {Heap} : \E r \in {AnalyzeMultipleTables(h0, names, plan)} :
        /\ Store(r.h)
        /\ last' = Logged([Call("analyze_multiple_tables") EXCEPT
                             !.names = names, !.exc = r.exc, !.tables = r.tables],
                          r.h)

FindRelatedTablesCall(t, d, order, plan) ==
    \E h0 \in {Heap} : \E r \in {FindRelatedTables(h0, t, d, order, plan)} :
        /\ Store(r.h)
        /\ last' = Logged([Call("find_related_tables") EXCEPT
                             !.name = t, !.depth = d, !.exc = r.exc,
                             !.related = r.related,
                             !.expanded = r.expanded],
                          r.h)

GenerateFullAnalysisCall(names, f, plan) ==
    \E h0 \in {Heap} : \E r \in {GenerateFullAnalysis(h0, names, f, plan)} :
        /\ Store(r.h)
        /\ last' = Logged([Call("generate_full_analysis") EXCEPT
                             !.names = names, !.flag = f, !.exc = r.exc,
                             !.tables = r.result.tables,
                             !.relationships = r.result.relationships,
                             !.custom_objects = r.result.custom_objects],
                          r.h)

DoAnalyzeTable ==
    /\ Idle
    /\ \E t \in Tables, f \in BOOLEAN : \E plan \in Plans({t}) :
           AnalyzeTableCall(t, f, plan)

DoAnalyzeMultipleTables ==
    /\ Idle
    /\ \E names \in NameLists : \E plan \in Plans(Range(names)) :
           AnalyzeMultipleTablesCall(names, plan)

DoFindRelatedTables ==
    /\ Idle
    /\ \E t \in Tables, d \in 0..MaxDepth, order \in Orders, plan \in ForkeyPlans(Tables) :
           FindRelatedTablesCall(t, d, order, plan)

DoGenerateFullAnalysis ==
    /\ Idle
    /\ \E names \in NameLists, f \in BOOLEAN : \E plan \in Plans(Range(names)) :
           GenerateFullAnalysisCall(names, f, plan)

DoClearCache ==
    /\ Idle
    /\ Store(ClearCache(Heap))
    /\ last' = Call("clear_cache")

\* the caller takes the result of the call
Return ==
    /\ ~Idle
    /\ last' = Call("idle")
    /\ UNCHANGED <<sap_tables, sap_forkey, table_cache, relationship_cache, first_table,
                   environment_vars>>

Next ==
    \/ DoAnalyzeTable
    \/ DoAnalyzeMultipleTables
    \/ DoFindRelatedTables
    \/ DoGenerateFullAnalysis
    \/ DoClearCache
    \/ Return

Spec == Init /\ [][Next]_vars

\* ------------------------------------------------- the traversal on any graph
\* Every foreign-key graph over the tables, all of them known, and a transport
\* without faults: find_related_tables as a function of the graph.
ForkeyGraphs == [Tables -> SUBSET Tables]

InitTraversal ==
    /\ sap_tables = Known
    /\ sap_forkey \in ForkeyGraphs
    /\ Fresh

DoTraverse ==
    /\ Idle
    /\ \E t \in Tables, d \in 0..MaxDepth, order \in Orders :
           FindRelatedTablesCall(t, d, order, NoFault)

NextTraversal ==
    \/ DoTraverse
    \/ DoClearCache
    \/ Return

SpecTraversal == InitTraversal /\ [][NextTraversal]_vars

\* ------------------------------------------------- the end-to-end scenario
\* A new analyzer: generate_full_analysis([t]) and then
\* find_related_tables(t, 1), on any graph, whatever the transport does.
ScenarioAnalysis ==
    /\ last.op = "idle"
    /\ \E t \in Tables, f \in BOOLEAN : \E plan \in Plans({t}) :
           GenerateFullAnalysisCall(<<t>>, f, plan)

ScenarioRelated ==
    /\ last.op = "generate_full_analysis"
    /\ \E order \in Orders : \E plan \in ForkeyPlans({last.names[1]}) :
           FindRelatedTablesCall(last.names[1], 1, order, plan)

NextScenario ==
    \/ ScenarioAnalysis
    \/ ScenarioRelated

SpecScenario == InitTraversal /\ [][NextScenario]_vars

\* ================================================================== claims
\* what the dictionary holds
DirectTargets(t) == sap_forkey[t] \cap Tables

\* the relationships a faultless foreign-key fetch for t gives
TrueRelationships(t) == ForkeyRelationships(t, ForkeyRows(t))

\* C1: when the structure fetch for N reports no table (the empty document or
\* one without a table header), analyze_table(N, any flag) signals
\* SAPTableNotFoundError, not the generic metadata error, and N is no key of
\* the table cache afterwards; every analyze_table(N) for such a table queries
\* the transport.
C1_NotFoundNotCached ==
    (last.op = "analyze_table" /\ sap_tables[last.name] # "table") =>
        /\ Len(last.sf) = 1
        /\ last.sf[1].name = last.name
        /\ (last.sf[1].exc = NoExc => last.exc = "SAPTableNotFoundError")
        /\ last.exc # NoExc
        /\ last.name \notin DOMAIN table_cache
        /\ last.built = <<>>

C1_Witness ==
    /\ last.op = "analyze_table"
    /\ last.flag
    /\ sap_tables[last.name] = "no_header"
    /\ last.sf = <<[name |-> last.name, exc |-> NoExc]>>
    /\ last.exc = "SAPTableNotFoundError"
    /\ last.name \notin DOMAIN table_cache
    /\ table_cache # EmptyDict

\* C2: once analyze_table(N) has succeeded on an analyzer, every later
\* analyze_table(N, f) with no clear_cache in between returns the Table of the
\* first call, the same object (none is built, nothing is fetched), for both
\* values of f and whatever the first call used.
C2_LaterCallsReturnFirst ==
    [][\A n \in Tables :
         (n \in DOMAIN first_table /\ last'.op = "analyze_table" /\ last'.name = n) =>
            /\ last'.exc = NoExc
            /\ last'.table = first_table[n]
            /\ last'.built = <<>>
            /\ last'.sf = <<>> /\ last'.ff = <<>>
            /\ first_table' = first_table]_vars

\* a later call asks for relationships, the first one did not: it gets the
\* first Table, without foreign keys, though the relationships are known
C2_Witness ==
    /\ last.op = "analyze_table"
    /\ last.flag
    /\ last.exc = NoExc
    /\ last.sf = <<>>
    /\ last.table = first_table[last.name]
    /\ last.table.foreign_keys = <<>>
    /\ last.name \in DOMAIN relationship_cache
    /\ relationship_cache[last.name] # <<>>

\* the tables at the end of a chain of exactly k foreign-key edges from the set S
RECURSIVE ChainEnds(_, _)
ChainEnds(S, k) ==
    IF k = 0 THEN S
    ELSE UNION {DirectTargets(t) : t \in ChainEnds(S, k - 1)}

\* the tables other than root at the end of a chain of 1..k edges from root
WithinDepth(root, k) == UNION {ChainEnds({root}, j) : j \in 1..k} \ {root}

\* C3: with a faultless relationship fetch, find_related_tables(root, max_depth)
\* returns, without duplicates, exactly the tables other than root that a chain
\* of 1 to max_depth foreign-key edges reaches from root, in whatever order the
\* tables of a level are processed.
C3_BoundedBreadthFirst ==
    last.op = "find_related_tables" =>
        /\ last.exc = NoExc
        /\ NoDup(last.related)
        /\ Range(last.related) = WithinDepth(last.name, last.depth)

\* a table two edges away is found at depth 2, one three edges away is not, on a
\* graph where the root is pointed back to
C3_Witness ==
    /\ last.op = "find_related_tables"
    /\ last.depth = 2
    /\ Len(last.related) = 2
    /\ ChainEnds({last.name}, 2) \ ChainEnds({last.name}, 1) # {}
    /\ last.name \in ChainEnds({last.name}, 3)

\* C4: find_related_tables(root, 0) returns an empty collection, makes no
\* relationship fetch and leaves both caches as they were.
C4_DepthZero ==
    [][(last'.op = "find_related_tables" /\ last'.depth = 0) =>
          /\ last'.exc = NoExc
          /\ last'.related = <<>>
          /\ last'.expanded = <<>>
          /\ last'.ff = <<>> /\ last'.sf = <<>>
          /\ table_cache' = table_cache
          /\ relationship_cache' = relationship_cache]_vars

\* the root has foreign keys nobody has fetched, and depth 0 still finds none
C4_Witness ==
    /\ last.op = "find_related_tables"
    /\ last.depth = 0
    /\ last.related = <<>>
    /\ DirectTargets(last.name) # {}
    /\ last.name \notin DOMAIN relationship_cache
    /\ relationship_cache # EmptyDict

\* C5: in one find_related_tables call no table has its relationships expanded
\* twice, also on cyclic and self-referencing graphs, and root is not returned
\* unless another discovered table has a foreign key to it.
C5_ExpandedOnce ==
    last.op = "find_related_tables" =>
        /\ NoDup(last.expanded)
        /\ (last.name \in Range(last.related) =>
               \E t \in Range(last.related) \ {last.name} :
                   last.name \in DirectTargets(t))

\* a root on a cycle that also references itself; three tables were expanded
C5_Witness ==
    /\ last.op = "find_related_tables"
    /\ last.name \in DirectTargets(last.name)
    /\ \E t \in Range(last.related) : last.name \in DirectTargets(t)
    /\ Len(last.expanded) = 3

\* the targets of the relationships the analyzer holds for t
CachedTargets(t) == {relationship_cache[t][i].to_table : i \in 1..Len(relationship_cache[t])}

\* C6: find_related_tables(root, 1) after generate_full_analysis([root]) returns
\* direct foreign-key targets of root only, never root, none twice; when the
\* relationships the analyzer holds for root are those of the dictionary it
\* returns all of them, so for ZORDER with its one foreign key to ZCUSTOMER
\* exactly ZCUSTOMER.
C6_DirectTargetsOnly ==
    last.op = "find_related_tables" =>
        /\ last.exc = NoExc
        /\ NoDup(last.related)
        /\ Range(last.related) \subseteq DirectTargets(last.name) \ {last.name}
        /\ last.name \in DOMAIN relationship_cache
        /\ (relationship_cache[last.name] = TrueRelationships(last.name) =>
               Range(last.related) = DirectTargets(last.name) \ {last.name})
        /\ (/\ last.name = "ZORDER"
            /\ sap_forkey["ZORDER"] = {"ZCUSTOMER"}
            /\ relationship_cache["ZORDER"] = TrueRelationships("ZORDER")) =>
               last.related = <<"ZCUSTOMER">>

\* the scenario: the analysis of ZORDER filled both caches, the traversal makes
\* no fetch and answers ZCUSTOMER, though ZCUSTOMER has foreign keys of its own
C6_Witness ==
    /\ last.op = "find_related_tables"
    /\ last.name = "ZORDER"
    /\ last.depth = 1
    /\ sap_forkey["ZORDER"] = {"ZCUSTOMER"}
    /\ sap_forkey["ZCUSTOMER"] = {"ZITEM"}
    /\ "ZORDER" \in DOMAIN table_cache
    /\ last.ff = <<>>
    /\ last.related = <<"ZCUSTOMER">>

\* whether the structure fetch of name n can give a table during the call c
FetchFails(c, n) ==
    \/ sap_tables[n] # "table"
    \/ \E i \in 1..Len(c.sf) : c.sf[i].name = n /\ c.sf[i].exc # NoExc

\* C7: analyze_multiple_tables(names) never raises; it returns, in the order of
\* names, one complete Table (its name, every field of the dictionary, the
\* foreign keys as cached) for each name whose analyze_table succeeds, and
\* nothing for a name that is not found or whose fetch fails.
C7_SkipsFailedNames ==
    last.op = "analyze_multiple_tables" =>
        /\ last.exc = NoExc
        /\ LET ok == SelectSeq(last.names, LAMBDA n : ~FetchFails(last, n))
           IN  /\ Len(last.tables) = Len(ok)
               /\ \A i \in 1..Len(ok) :
                     /\ last.tables[i].name = ok[i]
                     /\ last.tables[i].fields = ConvertFields(DD03P_TAB(ok[i]))
                     /\ last.tables[i].foreign_keys \in {<<>>, TrueRelationships(ok[i])}
                     /\ ok[i] \in DOMAIN table_cache
                     /\ last.tables[i] = table_cache[ok[i]]
        /\ \A n \in Range(last.names) : FetchFails(last, n) => n \notin DOMAIN table_cache

\* [A, B, C] with B unknown to the dictionary: the tables of A and C
C7_Witness ==
    /\ last.op = "analyze_multiple_tables"
    /\ last.names = <<"ZCUSTOMER", "ZITEM", "ZORDER">>
    /\ sap_tables["ZITEM"] = "empty"
    /\ Len(last.tables) = 2
    /\ last.tables[1].name = "ZCUSTOMER"
    /\ last.tables[2].name = "ZORDER"
    /\ last.tables[2].foreign_keys # <<>>

\* C8: a foreign-key fetch for N that raises during analyze_table(N, TRUE),
\* analyze_multiple_tables, find_related_tables or generate_full_analysis does
\* not make the call raise, and N contributes no relationship: the list kept
\* for N is empty, its Table has no foreign keys, the traversal finds only
\* targets of other tables, the result has no relationship from N.
C8_ForkeyFailureSwallowed ==
    \A i \in 1..Len(last.ff) :
        last.ff[i].exc # NoExc =>
            LET N == last.ff[i].name
            IN  /\ last.exc = NoExc
                /\ N \in DOMAIN relationship_cache
                /\ relationship_cache[N] = <<>>
                /\ last.op = "analyze_table" =>
                      /\ last.table.name = N
                      /\ last.table.fields = ConvertFields(DD03P_TAB(N))
                      /\ last.table.foreign_keys = <<>>
                /\ \A j \in 1..Len(last.tables) :
                      last.tables[j].name = N => last.tables[j].foreign_keys = <<>>
                /\ \A j \in 1..Len(last.relationships) :
                      last.relationships[j].from_table # N
                /\ last.op = "find_related_tables" =>
                      Range(last.related) \subseteq
                          UNION {CachedTargets(t) : t \in Range(last.expanded) \ {N}}

\* the structure of a table with foreign keys was fetched, the foreign-key fetch raised
C8_Witness ==
    /\ last.op = "analyze_table"
    /\ last.flag
    /\ last.sf = <<[name |-> last.name, exc |-> NoExc]>>
    /\ last.ff = <<[name |-> last.name, exc |-> "SAPRFCError"]>>
    /\ DirectTargets(last.name) # {}
    /\ last.exc = NoExc
    /\ last.table.foreign_keys = <<>>
    /\ last.name \in DOMAIN table_cache

\* whether the call c met a connection that could not be established
ConnectionFailed(c) ==
    \/ \E i \in 1..Len(c.sf) : c.sf[i].exc = "SAPConnectionError"
    \/ \E i \in 1..Len(c.ff) : c.ff[i].exc = "SAPConnectionError"

\* C9: generate_full_analysis raises to its caller when the connection cannot
\* be established, and does not raise for a per-table fetch failure or a
\* relationship-fetch failure.
C9_ConnectivityFailurePropagates ==
    last.op = "generate_full_analysis" =>
        /\ ConnectionFailed(last) => last.exc # NoExc
        /\ ~ConnectionFailed(last) => last.exc = NoExc

\* s[1] \o s[2] \o ... for a sequence of sequences
RECURSIVE Flat(_)
Flat(s) == IF s = <<>> THEN <<>> ELSE Head(s) \o Flat(Tail(s))

\* C10: the relationships of the result of generate_full_analysis(names, f) are
\* the direct relationships of the tables of the result, table after table:
\* each comes from a table of the result and is a foreign key of it in the
\* dictionary, the tables of the result are among names, and a name that
\* failed to analyze gives neither a table nor a relationship.
C10_FlatUnion ==
    last.op = "generate_full_analysis" =>
        /\ \A j \in 1..Len(last.tables) :
              /\ last.tables[j].name \in Range(last.names)
              /\ last.tables[j].name \in DOMAIN relationship_cache
              /\ relationship_cache[last.tables[j].name]
                     \in {<<>>, TrueRelationships(last.tables[j].name)}
        /\ last.relationships =
              Flat([j \in 1..Len(last.tables) |-> relationship_cache[last.tables[j].name]])
        /\ \A j \in 1..Len(last.relationships) :
              /\ \E k \in 1..Len(last.tables) :
                    last.tables[k].name = last.relationships[j].from_table
              /\ last.relationships[j].to_table
                     \in DirectTargets(last.relationships[j].from_table)
        /\ \A n \in Range(last.names) :
              FetchFails(last, n) =>
                 /\ \A k \in 1..Len(last.tables) : last.tables[k].name # n
                 /\ \A j \in 1..Len(last.relationships) :
                       last.relationships[j].from_table # n

\* ZORDER and ZCUSTOMER asked for, the fetch of ZCUSTOMER fails: the result has
\* the foreign key of ZORDER only, though ZCUSTOMER has one in the dictionary
C10_Witness ==
    /\ last.op = "generate_full_analysis"
    /\ last.names = <<"ZORDER", "ZCUSTOMER">>
    /\ FetchFails(last, "ZCUSTOMER")
    /\ DirectTargets("ZCUSTOMER") # {}
    /\ Len(last.tables) = 1
    /\ last.relationships = <<SAPRelationship("ZORDER", "ZCUSTOMER")>>

\* ============================================================ naming patterns
\* most objects in the list handed to detect_naming_patterns
MaxObjects == 2

\* names of objects, as their characters: without and with underscores, at the
\* end, at the start and twice, and names shorter than a prefix
ObjectNames ==
    { <<>>, <<"Z">>, <<"Z", "A">>, <<"Z", "A", "B">>, <<"Z", "_", "A">>,
      <<"Z", "A", "_">>, <<"_", "_", "A">> }

\* an SAPObject, by the fields detect_naming_patterns reads; the package is
\* "" when DEVCLASS is missing
SAPObjects == [name : ObjectNames, object_type : {"PROG", "CLAS"}, package : {"", "ZLOCAL"}]

ObjectLists == SeqsUpTo(SAPObjects, MaxObjects)

\* obj.name[:2]
Slice2(name) == SubSeq(name, 1, IF Len(name) < 2 THEN Len(name) ELSE 2)

\* obj.name.split('_'), from the i-th character on: cur is the token being
\* read, parts the tokens read
RECURSIVE SplitFrom(_, _, _, _)
SplitFrom(name, i, cur, parts) ==
    IF i > Len(name) THEN Append(parts, cur)
    ELSE IF name[i] = "_" THEN SplitFrom(name, i + 1, <<>>, Append(parts, cur))
    ELSE SplitFrom(name, i + 1, Append(cur, name[i]), parts)

Split(name) == SplitFrom(name, 1, <<>>, <<>>)

\* "'_' in obj.name"
HasUnderscore(name) == \E i \in 1..Len(name) : name[i] = "_"

\* "if k not in d: d[k] = 0" and "d[k] += 1"
Count(d, k) == IF k \in DOMAIN d THEN [d EXCEPT ![k] = @ + 1] ELSE Put(d, k, 0 + 1)

\* "if obj_type not in patterns['suffixes']: patterns['suffixes'][obj_type] = {}"
WithType(suffixes, obj_type) ==
    IF obj_type \in DOMAIN suffixes THEN suffixes ELSE Put(suffixes, obj_type, EmptyDict)

\* a dictionary that starts with an entry
SeededPatterns ==
    [prefixes |-> Put(EmptyDict, <<"Z", "_">>, 0), suffixes |-> EmptyDict,
     naming_conventions |-> EmptyDict, package_patterns |-> EmptyDict]

\* the dictionary detect_naming_patterns starts from
NewPatterns ==
    [prefixes |-> EmptyDict, suffixes |-> EmptyDict,
     naming_conventions |-> EmptyDict, package_patterns |-> EmptyDict]

\* a prefix test that lets names of one character through
CountsPrefixOfAny(name) == Len(name) > 0

\* "if len(obj.name) > 1"
CountsPrefix(name) == Len(name) > 1

\* the body of "for obj in objects"
CountObject(patterns, obj) ==
    Only({ Only({ Only({
      [prefixes           |-> prefixes,
       suffixes           |-> suffixes,
       naming_conventions |-> patterns.naming_conventions,
       package_patterns   |-> IF TruthyStr(obj.package)
                              THEN Count(patterns.package_patterns, obj.package)
                              ELSE patterns.package_patterns] :
      suffixes \in {IF HasUnderscore(obj.name) /\ Len(Split(obj.name)) > 1
                    THEN [typed EXCEPT ![obj.object_type] =
                            Count(@, Split(obj.name)[Len(Split(obj.name))])]
                    ELSE typed} }) :
      typed \in {WithType(patterns.suffixes, obj.object_type)} }) :
      prefixes \in {IF CountsPrefix(obj.name)
                    THEN Count(patterns.prefixes, Slice2(obj.name))
                    ELSE patterns.prefixes} })

\* detect_naming_patterns, from the i-th object on
RECURSIVE PatternsFrom(_, _, _)
PatternsFrom(objects, i, patterns) ==
    IF i > Len(objects) THEN patterns
    ELSE Only({ PatternsFrom(objects, i + 1, p) :
                p \in {CountObject(patterns, objects[i])} })

DetectNamingPatterns(objects) == PatternsFrom(objects, 1, NewPatterns)

\* a caller hands a list of objects to detect_naming_patterns
DoDetectNamingPatterns ==
    /\ Idle
    /\ \E objects \in ObjectLists :
          last' = [op |-> "detect_naming_patterns", objects |-> objects,
                   patterns |-> DetectNamingPatterns(objects)]
    /\ UNCHANGED <<sap_tables, sap_forkey, table_cache, relationship_cache, first_table,
                   environment_vars>>

\* a new analyzer over a dictionary that knows every table, before any command
\* has run: what a method or a command that reads nothing of them starts from
InitAtRest ==
    /\ sap_tables = Known
    /\ sap_forkey = [t \in Tables |-> {}]
    /\ Fresh

SpecPatterns ==
    /\ InitAtRest
    /\ [][\/ DoDetectNamingPatterns
          \/ Return]_vars

\* C11: detect_naming_patterns([]) returns empty frequency maps for prefixes,
\* suffixes and packages.
C11_EmptyListEmptyMaps ==
    (last.op = "detect_naming_patterns" /\ last.objects = <<>>) =>
        /\ DOMAIN last.patterns.prefixes = {}
        /\ DOMAIN last.patterns.suffixes = {}
        /\ DOMAIN last.patterns.package_patterns = {}

C11_Witness ==
    /\ last.op = "detect_naming_patterns"
    /\ last.objects = <<>>
    /\ last.patterns.prefixes = EmptyDict

\* the positions of the objects of the list objs that satisfy P
Where(objs, P(_)) == {i \in 1..Len(objs) : P(objs[i])}

\* the characters of name after its last underscore
AfterLastUnderscore(name) ==
    LET at == {i \in 1..Len(name) : name[i] = "_"}
        k  == CHOOSE i \in at : \A j \in at : j <= i
    IN  SubSeq(name, k + 1, Len(name))

\* the sum of the values of a frequency map
RECURSIVE Total(_)
Total(d) ==
    IF DOMAIN d = {} THEN 0
    ELSE LET k == CHOOSE x \in DOMAIN d : TRUE
         IN  d[k] + Total([x \in DOMAIN d \ {k} |-> d[x]])

\* C12: for every list of objects, prefixes maps each first-two-character
\* prefix to the number of objects whose name (of two characters or more)
\* starts with it, suffixes maps each object type of the list to the
\* frequencies of the token after the last underscore among the names of that
\* type that have an underscore, package_patterns maps each non-empty package
\* to the number of its objects; the prefix counts sum to the number of objects
\* with a name of two characters or more, the package counts to the number of
\* objects with a package.
C12_FrequencyMaps ==
    last.op = "detect_naming_patterns" =>
        LET objs == last.objects
            pat  == last.patterns
            long == Where(objs, LAMBDA o : Len(o.name) >= 2)
            und  == Where(objs, LAMBDA o : \E i \in 1..Len(o.name) : o.name[i] = "_")
            pkg  == Where(objs, LAMBDA o : o.package # "")
        IN  /\ DOMAIN pat.prefixes = {SubSeq(objs[i].name, 1, 2) : i \in long}
            /\ \A p \in DOMAIN pat.prefixes :
                  pat.prefixes[p] =
                      Cardinality({i \in long : SubSeq(objs[i].name, 1, 2) = p})
            /\ DOMAIN pat.suffixes = {objs[i].object_type : i \in 1..Len(objs)}
            /\ \A t \in DOMAIN pat.suffixes :
                  /\ DOMAIN pat.suffixes[t] =
                        {AfterLastUnderscore(objs[i].name) :
                            i \in {j \in und : objs[j].object_type = t}}
                  /\ \A x \in DOMAIN pat.suffixes[t] :
                        pat.suffixes[t][x] =
                            Cardinality({i \in und : /\ objs[i].object_type = t
                                                     /\ AfterLastUnderscore(objs[i].name) = x})
            /\ DOMAIN pat.package_patterns = {objs[i].package : i \in pkg}
            /\ \A k \in DOMAIN pat.package_patterns :
                  pat.package_patterns[k] =
                      Cardinality({i \in pkg : objs[i].package = k})
            /\ Total(pat.prefixes) = Cardinality(long)
            /\ Total(pat.package_patterns) = Cardinality(pkg)
            /\ DOMAIN pat.naming_conventions = {}

\* two objects of one type, one name ending in an underscore and one without
\* any, sharing a prefix and a package
C12_Witness ==
    /\ last.op = "detect_naming_patterns"
    /\ Len(last.objects) = 2
    /\ last.objects[1].name = <<"Z", "A", "_">>
    /\ last.objects[2].name = <<"Z", "A">>
    /\ last.objects[1].object_type = last.objects[2].object_type
    /\ last.objects[1].package = "ZLOCAL"
    /\ last.objects[2].package = "ZLOCAL"
    /\ last.patterns.prefixes[<<"Z", "A">>] = 2
    /\ last.patterns.suffixes[last.objects[1].object_type][<<>>] = 1
    /\ last.patterns.package_patterns["ZLOCAL"] = 2

\* ======================================================= the connection scope
\* an RFCClient with or without an HTTP fallback, used by SAPConnection
\* operations, by analyzer methods and directly
InitConnection ==
    /\ sap_tables = Known
    /\ sap_forkey = [t \in Tables |-> {}]
    /\ table_cache = EmptyDict
    /\ relationship_cache = EmptyDict
    /\ first_table = EmptyDict
    /\ last = Call("idle")
    /\ \E has_base_url \in BOOLEAN : rfc_client = NewRFCClient(has_base_url)
    /\ scope = NoScope
    /\ ShellAtRest

SpecConnection ==
    /\ InitConnection
    /\ [][\/ OpenScope
          \/ RunBody
          \/ LeaveScope
          \/ NextScope
          \/ MethodEnds
          \/ DirectConnect
          \/ Close]_vars

\* C13: whenever the connection scope has been left (after its body completed,
\* returned early or raised, or after the connect failed), and so whenever a
\* SAPConnection operation or an analyzer method has returned or raised, the
\* RFC client holds no connection.
C13_ScopeReleasesSession ==
    /\ [](scope.pc = "left" => rfc_client.connection = "None")
    /\ [][(scope.pc \in {"body", "finally"} /\ scope'.pc \notin {"body", "finally"})
            => rfc_client'.connection = "None"]_vars
    /\ [][(scope.pc = "left" /\ scope'.pc = "out") => rfc_client'.connection = "None"]_vars

\* a scope of an analyzer method over a client that can connect, left by the
\* exception its body raised
C13_Witness ==
    /\ scope.pc = "left"
    /\ scope.method = "find_related_tables"
    /\ scope.leaving = "raise"
    /\ scope.exc = "SAPRFCError"
    /\ rfc_client.http_fallback
    /\ rfc_client.connection = "None"

\* ============================================================ a changing store
\* the dictionary is changed behind the analyzer: tables appear, disappear and
\* get other foreign keys
ChangeDictionary ==
    /\ Idle
    /\ \E d \in Dictionaries :
          /\ <<d.tables, d.forkey>> # <<sap_tables, sap_forkey>>
          /\ sap_tables' = d.tables
          /\ sap_forkey' = d.forkey
    /\ UNCHANGED <<table_cache, relationship_cache, first_table, last, environment_vars>>

SpecStale ==
    /\ Init
    /\ [][\/ DoAnalyzeTable
          \/ DoAnalyzeMultipleTables
          \/ DoFindRelatedTables
          \/ DoGenerateFullAnalysis
          \/ DoClearCache
          \/ ChangeDictionary
          \/ Return]_vars

\* C14: no analyze_table, analyze_multiple_tables, find_related_tables or
\* generate_full_analysis call and no change of the dictionary removes or
\* changes an entry of the table cache or of the relationship cache;
\* clear_cache empties both, and an analyze_table for a name that is not in
\* the table cache fetches its structure.
C14_OnlyClearInvalidates ==
    [][IF last'.op = "clear_cache"
       THEN table_cache' = EmptyDict /\ relationship_cache' = EmptyDict
       ELSE /\ \A n \in DOMAIN table_cache :
                  n \in DOMAIN table_cache' /\ table_cache'[n] = table_cache[n]
            /\ \A n \in DOMAIN relationship_cache :
                  /\ n \in DOMAIN relationship_cache'
                  /\ relationship_cache'[n] = relationship_cache[n]
            /\ (last'.op = "analyze_table" /\ last'.name \notin DOMAIN table_cache) =>
                  (Len(last'.sf) = 1 /\ last'.sf[1].name = last'.name)]_vars

\* analyze_table answers from the cache a table the dictionary no longer has,
\* with foreign keys the dictionary no longer gives it
C14_Witness ==
    /\ last.op = "analyze_table"
    /\ last.exc = NoExc
    /\ last.sf = <<>>
    /\ sap_tables[last.name] # "table"
    /\ last.table = table_cache[last.name]
    /\ last.table.foreign_keys # <<>>
    /\ last.table.foreign_keys # TrueRelationships(last.name)

\* ================================================== the analyze-table command
\* the connection types a configuration can name
ConnectionTypes == {"RFC", "HTTP", ""}

\* SAPConnectionConfig as SAPConnection.__init__ reads it: valid is the answer
\* of validate_credentials, which asks for no field when no type is named
Configs == {c \in [valid : BOOLEAN, connection_type : ConnectionTypes] :
              c.connection_type = "" => c.valid}

\* a constructor that makes an RFC client whatever the type
AlwaysHasRFCClient(config) ==
    IF ~config.valid
    THEN [exc |-> "SAPConnectionError", has_rfc_client |-> FALSE]
    ELSE [exc |-> NoExc, has_rfc_client |-> TRUE]

\* SAPConnection.__init__: the exception it raises, and whether it has made
\* an RFC client
NewSAPConnection(config) ==
    IF ~config.valid
    THEN [exc |-> "SAPConnectionError", has_rfc_client |-> FALSE]
    ELSE [exc |-> NoExc,
          has_rfc_client |-> (config.connection_type = "RFC"
                              \/ ~TruthyStr(config.connection_type))]

\* what the analyzer meets over a connection: without an RFC client
\* get_table_structure and rfc_connection raise SAPConnectionError before any
\* remote call, as they do when every connect fails
PlanOver(connection, plan) ==
    IF connection.has_rfc_client THEN plan
    ELSE [down |-> TRUE, struct_error |-> {}, forkey_error |-> {}]

\* MetadataAnalyzer.__init__
NewAnalyzer ==
    [tc |-> EmptyDict, rc |-> EmptyDict, ft |-> EmptyDict,
     sf |-> <<>>, ff |-> <<>>, built |-> <<>>]

\* str(e) of the exceptions an analysis ends with
ExcText(exc, table_name) ==
    CASE exc = "SAPTableNotFoundError" -> <<"Tabela '", table_name, "' não encontrada no SAP">>
      [] exc = "SAPMetadataError"      -> <<"Erro ao analisar tabela ", table_name, ": ">>
      [] OTHER                         -> <<"Configuração inválida para ambiente ">>

\* console.print of the command: a style and the text
Line(style, text) == [style |-> style, text |-> text]

\* "[bold red]Erro ao analisar tabela:[/] {str(e)}"
ErrorLine(exc, table_name) ==
    Line("bold red", <<"Erro ao analisar tabela:">> \o ExcText(exc, table_name))

\* json.dump(table.dict(), f, ...)
JsonDump(table) == [format |-> "json", data |-> table]

\* os.path.join(directory, filename) for a relative filename: the file of
\* that name in that directory; "." is the working directory
FilePath(directory, filename) == <<directory, filename>>

\* a command that saves whatever the analysis ended with
SavesAnyOutcome(output_file, exc) == TruthyStr(output_file)

\* "if output_file:" is reached only when nothing above it has raised
SavesAnalysis(output_file, exc) == exc = NoExc /\ TruthyStr(output_file)

\* the lines printed and the files left when the body of the try ended with exc
CommandEnds(fs, table_name, output_file, exc, table, h) ==
    [console |->
        <<Line("bold cyan", <<"Analisando tabela ", table_name>>)>>
        \o (IF exc = NoExc THEN <<Line("bold green", <<"Tabela: ", table.name>>)>> ELSE <<>>)
        \o (IF SavesAnalysis(output_file, exc)
            THEN <<Line("green", <<"Análise salva em: ", output_file>>)>> ELSE <<>>)
        \o (IF exc # NoExc THEN <<ErrorLine(exc, table_name)>> ELSE <<>>),
     files  |-> IF SavesAnalysis(output_file, exc)
                THEN Put(fs, FilePath(".", output_file), JsonDump(table)) ELSE fs,
     raised |-> exc, table |-> table, h |-> h]

\* analyze_table_structure over the file system fs: a new connection, a new
\* analyzer, one analyze_table; "except Exception" ends every failure
AnalyzeTableStructure(fs, table_name, include_relationships, output_file, config, plan) ==
    Only({ IF connection.exc # NoExc
           THEN CommandEnds(fs, table_name, output_file, connection.exc, NoTable, NewAnalyzer)
           ELSE Only({ CommandEnds(fs, table_name, output_file, r.exc, r.table, r.h) :
                       r \in {AnalyzeTable(NewAnalyzer, table_name, include_relationships,
                                           PlanOver(connection, plan))} }) :
           connection \in {NewSAPConnection(config)} })

DoAnalyzeTableStructure ==
    /\ Idle
    /\ \E t \in Tables, f \in BOOLEAN, output_file \in {"", "out.json"}, config \in Configs :
         \E plan \in Plans({t}) :
           \E r \in {AnalyzeTableStructure(files, t, f, output_file, config, plan)} :
             /\ files' = r.files
             /\ last' = [op |-> "analyze_table_structure", name |-> t, flag |-> f,
                         output_file |-> output_file, config |-> config,
                         console |-> r.console, raised |-> r.raised,
                         exc |-> NoExc, table |-> r.table,
                         sf |-> r.h.sf, ff |-> r.h.ff, built |-> r.h.built]
    /\ UNCHANGED <<sap_tables, sap_forkey, table_cache, relationship_cache, first_table,
                   rfc_client, scope, environ, llm_client, menu>>

SpecCommand ==
    /\ Init
    /\ [][\/ DoAnalyzeTableStructure
          \/ Return]_vars

\* the structure fetch of the command was made and answered
FetchAnswered(c) == c.sf = <<[name |-> c.name, exc |-> NoExc]>>

Environments ==
    UNION { [K -> {"", "sk-1"}] : K \in SUBSET {"GROQ_API_KEY", "OPENAI_API_KEY"} }

\* os.environ.get(key) is truthy
EnvironHas(env, key) == key \in DOMAIN env /\ TruthyStr(env[key])

\* a choice that looks for the OpenAI credential first
PrefersOpenAI(env) ==
    IF EnvironHas(env, "OPENAI_API_KEY") THEN "openai"
    ELSE "groq"

\* LLMClient._get_default_provider
GetDefaultProvider(env) ==
    IF EnvironHas(env, "GROQ_API_KEY") THEN "groq"
    ELSE IF EnvironHas(env, "OPENAI_API_KEY") THEN "openai"
    ELSE "groq"

\* LLMClient.__init__
NewLLMClient(env) ==
    [providers |-> {"groq", "openai"}, default_provider |-> GetDefaultProvider(env)]

\* what one call of generate is given (temperature in tenths)
Requests ==
    [system_prompt : {"Sistema"}, user_prompt : {"Usuário", ""},
     provider : {"", "groq", "openai", "arcee", "provider_inexistente"}, model_name : {"", "gpt-4o"},
     temperature : {5, 7}, max_tokens : {2048, 4096}]

\* what a provider's generate ends with: the text of the completion or LLMAPIError
Answers ==
    [exc : {NoExc}, text : {"Código ABAP gerado", ""}]
    \cup [exc : {"LLMAPIError"}, text : {""}]

\* a routing that ignores the name it was given
AlwaysDefault(client, provider) == client.default_provider

\* "provider_name = provider or self._default_provider"
ProviderName(client, provider) ==
    IF TruthyStr(provider) THEN provider ELSE client.default_provider

\* LLMClient.generate: [exc, text, calls]; calls are the invocations of
\* providers' generate, each with the provider and the keyword arguments
Generate(client, request, answer) ==
    Only({ IF provider_name \notin client.providers
           THEN [exc |-> "LLMProviderNotFoundError", text |-> "", calls |-> <<>>]
           ELSE [exc  |-> answer.exc, text |-> answer.text,
                 calls |-> <<[provider      |-> provider_name,
                              system_prompt |-> request.system_prompt,
                              user_prompt   |-> request.user_prompt,
                              model_name    |-> request.model_name,
                              temperature   |-> request.temperature,
                              max_tokens    |-> request.max_tokens]>>] :
           provider_name \in {ProviderName(client, request.provider)} })

\* the environment changes: a variable is set, emptied or unset
ChangeEnviron ==
    /\ Idle
    /\ \E env \in Environments :
         /\ env # environ
         /\ environ' = env
    /\ UNCHANGED <<sap_tables, sap_forkey, table_cache, relationship_cache, first_table, last,
                   rfc_client, scope, files, llm_client, menu>>

\* "LLMClient()"
DoNewLLMClient ==
    /\ Idle
    /\ llm_client' = NewLLMClient(environ)
    /\ last' = Call("LLMClient")
    /\ UNCHANGED <<sap_tables, sap_forkey, table_cache, relationship_cache, first_table,
                   rfc_client, scope, files, environ, menu>>

DoGenerate ==
    /\ Idle
    /\ llm_client # NoClient
    /\ \E request \in Requests, answer \in Answers :
         \E r \in {Generate(llm_client, request, answer)} :
           last' = [op |-> "generate", request |-> request, answer |-> answer,
                    exc |-> r.exc, text |-> r.text, calls |-> r.calls]
    /\ UNCHANGED <<sap_tables, sap_forkey, table_cache, relationship_cache, first_table,
                   environment_vars>>

SpecLLM ==
    /\ InitAtRest
    /\ [][\/ ChangeEnviron
          \/ DoNewLLMClient
          \/ DoGenerate
          \/ Return]_vars

\* C16: generate forwards a request to the provider named in it, or to the
\* client's default provider when no name is given, when that name is
\* registered: that provider is invoked exactly once with the request's system
\* prompt, user prompt, model name, temperature and max_tokens, and what it
\* answers is what generate returns; for a name that is not registered generate
\* raises LLMProviderNotFoundError and invokes no provider.
C16_RoutesByProviderName ==
    last.op = "generate" =>
      LET q == last.request
          name == IF q.provider # "" THEN q.provider ELSE llm_client.default_provider
      IN  IF name \in llm_client.providers
          THEN /\ Len(last.calls) = 1
               /\ last.calls[1].provider = name
               /\ last.calls[1].system_prompt = q.system_prompt
               /\ last.calls[1].user_prompt = q.user_prompt
               /\ last.calls[1].model_name = q.model_name
               /\ last.calls[1].temperature = q.temperature
               /\ last.calls[1].max_tokens = q.max_tokens
               /\ last.exc = last.answer.exc
               /\ last.text = last.answer.text
          ELSE /\ last.exc = "LLMProviderNotFoundError"
               /\ last.calls = <<>>

\* a request that names the provider which is not the default was forwarded
\* to it and its text came back
C16_Witness ==
    /\ last.op = "generate"
    /\ last.request.provider = "openai"
    /\ llm_client.default_provider = "groq"
    /\ last.calls # <<>>
    /\ last.calls[1].provider = "openai"
    /\ last.exc = NoExc
    /\ last.text = "Código ABAP gerado"

\* C17: a client's default provider is fixed when the client is constructed,
\* from the environment of that moment: groq when GROQ_API_KEY is set and not
\* empty, else openai when OPENAI_API_KEY is set and not empty, else groq; no
\* later change of the environment and no call of generate changes it.
C17_DefaultProviderAtConstruction ==
    [][/\ (last'.op = "LLMClient" /\ last.op = "idle") =>
            llm_client'.default_provider =
               (IF "GROQ_API_KEY" \in DOMAIN environ /\ environ["GROQ_API_KEY"] # ""
                THEN "groq"
                ELSE IF "OPENAI_API_KEY" \in DOMAIN environ /\ environ["OPENAI_API_KEY"] # ""
                THEN "openai"
                ELSE "groq")
       /\ ~(last'.op = "LLMClient" /\ last.op = "idle") => llm_client' = llm_client]_vars

\* a client constructed with only the OpenAI credential present still has
\* openai as its default, and has just used it, after GROQ_API_KEY was set
C17_Witness ==
    /\ llm_client.default_provider = "openai"
    /\ EnvironHas(environ, "GROQ_API_KEY")
    /\ last.op = "generate"
    /\ last.request.provider = ""
    /\ last.calls # <<>>
    /\ last.calls[1].provider = "openai"

\* ================================================== the generation commands
\* the commands that take a description and a repeated list option
GenerationCommands ==
    {"generate_alv", "generate_report", "generate_class",
     "generate_function_module", "generate_structure"}

\* AbapGenerator.generate_x through _generate_code: the request to the client
\* the generator has made, with the defaults of DEFAULT_TEMPERATURE and
\* DEFAULT_MAX_TOKENS
GenerateCode(client, method, description, items, answer) ==
    Generate(client,
             [system_prompt |-> "ENHANCED_SYSTEM_PROMPT",
              user_prompt   |-> [template |-> method, description |-> description,
                                joined |-> items],
              provider      |-> "", model_name |-> "",
              temperature   |-> 7, max_tokens |-> 4096],
             answer)

\* a command that saves whatever the generator ended with
SavesAfterFailure(exc) == TRUE

\* _save_code is reached only when the generator has returned
ReachesSaveCode(exc) == exc = NoExc

\* a generation command over the file system fs: a new AbapGenerator (and
\* LLMClient), one generator call, _save_code (disk_ok: makedirs and open
\* succeed); "except Exception" ends every failure
GenerationCommand(fs, env, method, description, items, output_dir, filename, answer, disk_ok) ==
    Only({ Only({ Only({
       [client    |-> client,
        generator_calls |-> <<[method |-> method, description |-> description,
                               items |-> items]>>,
        llm_calls |-> g.calls,
        generated |-> [exc |-> g.exc, text |-> g.text],
        raised    |-> IF g.exc # NoExc THEN g.exc
                      ELSE IF ~disk_ok THEN "OSError" ELSE NoExc,
        files     |-> IF saves THEN Put(fs, FilePath(output_dir, filename), g.text) ELSE fs,
        console   |->
            <<Line("bold green", <<"Gerando:", description>>)>>
            \o (IF saves /\ g.exc = NoExc
                THEN <<Line("bold green", <<"Código gerado com sucesso:",
                                            FilePath(output_dir, filename)>>)>>
                ELSE <<Line("bold red", <<"Erro ao gerar:">>)>>)] :
       saves \in {ReachesSaveCode(g.exc) /\ disk_ok} }) :
       g \in {GenerateCode(client, method, description, items, answer)} }) :
       client \in {NewLLMClient(env)} })

DoGenerationCommand ==
    /\ Idle
    /\ \E method \in GenerationCommands,
          items \in {<<>>, <<"MARA">>, <<"MARA", "VBAK">>, <<"VBAK", "MARA">>},
          output_dir \in {"output", "src/abap"}, filename \in {"z_alv.abap", "test_class.abap"},
          answer \in Answers, disk_ok \in BOOLEAN :
         \E r \in {GenerationCommand(files, environ, method, "Relatório de teste", items,
                                     output_dir, filename, answer, disk_ok)} :
           /\ files' = r.files
           /\ llm_client' = r.client
           /\ last' = [op |-> method, description |-> "Relatório de teste", items |-> items,
                       output_dir |-> output_dir, filename |-> filename,
                       disk_ok |-> disk_ok, exc |-> NoExc,
                       generator_calls |-> r.generator_calls, llm_calls |-> r.llm_calls,
                       generated |-> r.generated, raised |-> r.raised,
                       console |-> r.console]
    /\ UNCHANGED <<sap_tables, sap_forkey, table_cache, relationship_cache, first_table,
                   rfc_client, scope, environ, menu>>

SpecGeneration ==
    /\ InitAtRest
    /\ [][\/ ChangeEnviron
          \/ DoGenerationCommand
          \/ Return]_vars

\* C18: a generation command calls the generator exactly once, with the
\* description and the list of the repeated option in the order given, and
\* never propagates an exception; when the generator returned a text and the
\* file could be written, the file of the given name in the given directory
\* holds exactly that text and no other file has changed; when the generator
\* or the LLM call failed, every file is as it was and the last line printed
\* is the red error line.
C18_SavesGeneratedTextVerbatim ==
    [][LET c == last' IN
       c.op \in GenerationCommands =>
         /\ c.exc = NoExc
         /\ Len(c.generator_calls) = 1
         /\ c.generator_calls[1].method = c.op
         /\ c.generator_calls[1].description = c.description
         /\ c.generator_calls[1].items = c.items
         /\ ((c.generated.exc = NoExc /\ c.disk_ok) =>
               /\ DOMAIN files' = DOMAIN files \cup {<<c.output_dir, c.filename>>}
               /\ files'[<<c.output_dir, c.filename>>] = c.generated.text
               /\ \A path \in DOMAIN files :
                     path # <<c.output_dir, c.filename>> => files'[path] = files[path]
               /\ c.console[Len(c.console)].style = "bold green")
         /\ (c.generated.exc # NoExc =>
               /\ files' = files
               /\ c.console[Len(c.console)].style = "bold red")]_vars

\* generate-class was given two methods in an order that is not the sorted
\* one, the generator answered, and the one file there is holds the text
C18_Witness ==
    /\ last.op = "generate_class"
    /\ last.items = <<"VBAK", "MARA">>
    /\ last.generator_calls[1].items = <<"VBAK", "MARA">>
    /\ last.generated = [exc |-> NoExc, text |-> "Código ABAP gerado"]
    /\ DOMAIN files = {<<"src/abap", "test_class.abap">>}
    /\ files[<<"src/abap", "test_class.abap">>] = "Código ABAP gerado"

\* ======================================================= the interactive menu
\* the options of show_main_menu that run a generation command, with the
\* command each handler calls
CommandOf(choice) ==
    CASE choice = 1  -> "generate_alv"
      [] choice = 2  -> "generate_report"
      [] choice = 3  -> "generate_class"
      [] choice = 4  -> "generate_function_module"
      [] choice = 5  -> "generate_structure"
      [] choice = 6  -> "generate_test"
      [] choice = 7  -> "generate_custom_program"
      [] choice = 8  -> "generate_enhancement"
      [] choice = 10 -> "generate_sap_aware_code"

\* a handler has returned: outcome is "ok", or "caught" when its command
\* failed and the failure ended at the command's own except; the loop asks
\* for another operation when "choice not in [9, 11, 12]"
HandlerReturns(choice, option, outcome) ==
    [pc |-> IF choice \in {9, 11, 12} THEN "menu" ELSE "confirm",
     choice |-> choice, option |-> option,
     outcome |-> outcome, ended_by |-> ""]

\* the loop has ended: by a break, or by an exception that left a handler
\* ("escaped") and reached "except Exception" of main, outside the loop
SessionEnds(choice, option, outcome, ended_by) ==
    [pc |-> "ended", choice |-> choice, option |-> option,
     outcome |-> outcome, ended_by |-> ended_by]

\* "def main(): try: load_config(); print_header(); show_config_status()"
StartSession ==
    /\ menu.pc = "off"
    /\ menu' = [NoMenu EXCEPT !.pc = "menu"]
    /\ UNCHANGED <<sap_tables, sap_forkey, table_cache, relationship_cache, first_table, last,
                   rfc_client, scope, files, environ, llm_client>>

\* "if choice == 0: ... break"
SelectExit ==
    /\ menu.pc = "menu"
    /\ menu' = SessionEnds(0, "", "", "exit")
    /\ UNCHANGED <<sap_tables, sap_forkey, table_cache, relationship_cache, first_table, last,
                   rfc_client, scope, files, environ, llm_client>>

\* options 1-8 and 10: the handler asks for the arguments and calls the command
SelectGeneration ==
    /\ menu.pc = "menu"
    /\ \E choice \in {1, 2, 3, 4, 5, 6, 7, 8, 10}, answer \in Answers, disk_ok \in BOOLEAN :
         \E r \in {GenerationCommand(files, environ, CommandOf(choice), "Relatório de teste",
                                     <<"MARA">>, "./output", "z_code.abap", answer, disk_ok)} :
           /\ files' = r.files
           /\ llm_client' = r.client
           /\ menu' = HandlerReturns(choice, "", IF r.raised # NoExc THEN "caught" ELSE "ok")
    /\ UNCHANGED <<sap_tables, sap_forkey, table_cache, relationship_cache, first_table, last,
                   rfc_client, scope, environ>>

\* option 11: handle_analyze_table calls analyze_table_structure
SelectAnalyzeTable ==
    /\ menu.pc = "menu"
    /\ \E t \in Tables, f \in BOOLEAN, output_file \in {"", "out.json"}, config \in Configs :
         \E plan \in Plans({t}) :
           \E r \in {AnalyzeTableStructure(files, t, f, output_file, config, plan)} :
             /\ files' = r.files
             /\ menu' = HandlerReturns(11, "", IF r.raised # NoExc THEN "caught" ELSE "ok")
    /\ UNCHANGED <<sap_tables, sap_forkey, table_cache, relationship_cache, first_table, last,
                   rfc_client, scope, environ, llm_client>>

\* option 12: handle_test_sap_connection, with its own try around the command
SelectTestConnection ==
    /\ menu.pc = "menu"
    /\ \E outcome \in {"ok", "caught"} : menu' = HandlerReturns(12, "", outcome)
    /\ UNCHANGED <<sap_tables, sap_forkey, table_cache, relationship_cache, first_table, last,
                   rfc_client, scope, files, environ, llm_client>>

\* The .env file as its lines: a comment, a blank line, NAME=value, or a line
\* without "=".  A name is given as its parts, which "_" joins: SAP_DEV_ASHOST
\* is <<"SAP", "DEV", "ASHOST">>.
Pair(key, value) == [kind |-> "pair", key |-> key, value |-> value]

Comment(text) == [kind |-> "comment", key |-> <<>>, value |-> text]

Blank == [kind |-> "blank", key |-> <<>>, value |-> ""]

\* "for line in f": the lines that are no comment and have a "=" set their
\* key; a later line overwrites an earlier one
RECURSIVE ReadConfig(_, _, _)
ReadConfig(lines, i, existing_config) ==
    IF i > Len(lines) THEN existing_config
    ELSE ReadConfig(lines, i + 1,
                    IF lines[i].kind = "pair"
                    THEN Put(existing_config, lines[i].key, lines[i].value)
                    ELSE existing_config)

llm_keys ==
    << <<"ARCEE", "TOKEN">>, <<"GROQ", "API", "KEY">>, <<"OPENAI", "API", "KEY">>,
       <<"DEFAULT", "PROVIDER">>, <<"DEFAULT", "MODEL", "ARCEE">>,
       <<"DEFAULT", "MODEL", "GROQ">>, <<"DEFAULT", "MODEL", "OPENAI">>,
       <<"OUTPUT", "DIR">>, <<"DEFAULT", "TEMPERATURE">>, <<"DEFAULT", "MAX", "TOKENS">> >>

sap_general_keys == << <<"SAP", "ENCRYPTION", "KEY">>, <<"SAP", "DEFAULT", "ENVIRONMENT">> >>

\* the names f"SAP_{env}_ASHOST", ... of one environment
env_keys(env) ==
    LET suffixes ==
          << <<"ASHOST">>, <<"SYSNR">>, <<"CLIENT">>, <<"USER">>, <<"PASSWD">>,
             <<"PASSWD", "ENCRYPTED">>, <<"SAPROUTER">>, <<"MSHOST">>, <<"MSSERV">>,
             <<"GROUP">>, <<"BASE", "URL">>, <<"USE", "SSL">>, <<"VERIFY", "SSL">>,
             <<"LANGUAGE">>, <<"CONNECTION", "TYPE">>, <<"TIMEOUT">> >>
    IN  [i \in 1..Len(suffixes) |-> <<"SAP", env>> \o suffixes[i]]

\* "for key in keys: if key in existing_config: f.write(...)"
WriteKeys(keys, config) ==
    Only({ [i \in 1..Len(present) |-> Pair(present[i], config[present[i]])] :
           present \in {SelectSeq(keys, LAMBDA key : key \in DOMAIN config)} })

\* k.startswith(f"SAP_{env}_")
StartsWithEnv(k, env) == Len(k) >= 3 /\ k[1] = "SAP" /\ k[2] = env

\* other_keys: the keys that are no LLM key, no general SAP key and do not
\* begin with the prefix of an environment
OtherKeys(config) ==
    {k \in DOMAIN config \ (Range(llm_keys) \cup Range(sap_general_keys)) :
        \A env \in {"DEV", "QAS", "PRD"} : ~StartsWithEnv(k, env)}

\* sorted(...) of names: the order of str on the names that are no LLM key
\* and no general SAP key
SortedNames ==
    << <<"LOG", "LEVEL">>, <<"SAP", "DEV", "PASSWORD">>, <<"SAP", "LANGUAGE">>,
       <<"SAP", "QAS", "TIMEOUT">>, <<"ZCUSTOM">> >>

\* the lines save_config writes for existing_config
WriteConfig(config) ==
    <<Comment("Configurações do ABAPify"), Comment("========================="), Blank>>
    \o <<Comment("LLM Configuration")>> \o WriteKeys(llm_keys, config) \o <<Blank>>
    \o <<Comment("SAP Configuration")>> \o WriteKeys(sap_general_keys, config) \o <<Blank>>
    \o <<Comment("SAP DEV Environment")>> \o WriteKeys(env_keys("DEV"), config) \o <<Blank>>
    \o <<Comment("SAP QAS Environment")>> \o WriteKeys(env_keys("QAS"), config) \o <<Blank>>
    \o <<Comment("SAP PRD Environment")>> \o WriteKeys(env_keys("PRD"), config) \o <<Blank>>
    \o Only({ IF other_keys = {} THEN <<>>
              ELSE <<Comment("Other Configuration")>>
                   \o WriteKeys(SelectSeq(SortedNames, LAMBDA k : k \in other_keys), config) :
              other_keys \in {OtherKeys(config)} })

\* save_config when the file can be opened: the file system it leaves;
\* existing_config.update(config) between reading and writing
SaveConfig(fs, updates) ==
    Only({ Only({ Put(fs, env_path,
                      WriteConfig([k \in DOMAIN existing \cup DOMAIN updates |->
                                     IF k \in DOMAIN updates THEN updates[k]
                                     ELSE existing[k]])) :
                  existing \in {IF env_path \in DOMAIN fs
                                THEN ReadConfig(fs[env_path], 1, EmptyDict)
                                ELSE EmptyDict} }) :
           env_path \in {FilePath(".", ".env")} })

\* what the options of handle_configuration hand to save_config; none for the
\* options that save nothing or whose command has its own except
ConfigUpdates(option) ==
    CASE option = "2" -> {[k \in {<<"DEFAULT", "PROVIDER">>} |-> "groq"]}
      [] option = "3" -> {EmptyDict, [k \in {<<"GROQ", "API", "KEY">>} |-> "sk-1"]}
      [] OTHER        -> {EmptyDict}

\* option 9, handle_configuration:
\*   "0" back; "1", "4", "6" call a command that has its own except;
\*   "2", "3" call save_config, whose ConfigError nothing in the handler catches;
\*   "5" calls setup_sap_config_command.callback() without the argument the
\*       function requires, a TypeError nothing in the handler catches
SelectConfiguration ==
    /\ menu.pc = "menu"
    /\ \E option \in {"0", "1", "2", "3", "4", "5", "6"}, disk_ok \in BOOLEAN :
         \E updates \in ConfigUpdates(option) :
           IF option = "5"
           THEN /\ menu' = SessionEnds(9, option, "escaped", "unexpected")
                /\ files' = files
           ELSE IF option \in {"2", "3"} /\ updates # EmptyDict
           THEN IF disk_ok
                THEN /\ menu' = HandlerReturns(9, option, "ok")
                     /\ files' = SaveConfig(files, updates)
                ELSE /\ menu' = SessionEnds(9, option, "escaped", "unexpected")
                     /\ files' = files
           ELSE /\ menu' = HandlerReturns(9, option,
                                          IF option \in {"1", "4", "6"} /\ ~disk_ok
                                          THEN "caught" ELSE "ok")
                /\ files' = files
    /\ UNCHANGED <<sap_tables, sap_forkey, table_cache, relationship_cache, first_table, last,
                   rfc_client, scope, environ, llm_client>>

\* Confirm.ask("Deseja realizar outra operação?")
AnotherOperation ==
    /\ menu.pc = "confirm"
    /\ \E again \in BOOLEAN :
         menu' = IF again THEN [menu EXCEPT !.pc = "menu"]
                 ELSE [menu EXCEPT !.pc = "ended", !.ended_by = "declined"]
    /\ UNCHANGED <<sap_tables, sap_forkey, table_cache, relationship_cache, first_table, last,
                   rfc_client, scope, files, environ, llm_client>>

\* "except KeyboardInterrupt": the user interrupts at a prompt
Interrupt ==
    /\ menu.pc \in {"menu", "confirm"}
    /\ menu' = [menu EXCEPT !.pc = "ended", !.ended_by = "interrupt"]
    /\ UNCHANGED <<sap_tables, sap_forkey, table_cache, relationship_cache, first_table, last,
                   rfc_client, scope, files, environ, llm_client>>

SpecMenu ==
    /\ Init
    /\ [][\/ StartSession
          \/ SelectExit
          \/ SelectGeneration
          \/ SelectAnalyzeTable
          \/ SelectTestConnection
          \/ SelectConfiguration
          \/ AnotherOperation
          \/ Interrupt]_vars

\* C19: in the interactive menu no failure of a command ends the session:
\* after a command whose exception was caught at the command boundary the
\* loop stands at its next prompt, and the loop has ended only because the
\* user selected option 0, declined the "another operation" prompt or
\* interrupted the process.
C19_FailureNeverEndsSession ==
    /\ menu.outcome = "caught" /\ menu.ended_by = "" => menu.pc \in {"menu", "confirm"}
    /\ menu.pc = "ended" => menu.ended_by \in {"exit", "declined", "interrupt"}

\* ================================================= the connection's backing
\* MetadataAnalyzer(SAPConnection(config=...)).analyze_table(t, f): a new
\* analyzer over a connection of the given type, with a valid configuration
AnalyzeOverConnection(connection_type, t, include_relationships, plan) ==
    Only({ AnalyzeTable(NewAnalyzer, t, include_relationships, PlanOver(connection, plan)) :
           connection \in {NewSAPConnection([valid |-> TRUE,
                                             connection_type |-> connection_type])} })

DoAnalyzeOverConnection ==
    /\ Idle
    /\ \E t \in Tables, f \in BOOLEAN, connection_type \in ConnectionTypes :
         \E plan \in Plans({t}) :
           \E r \in {AnalyzeOverConnection(connection_type, t, f, plan)} :
             last' = [op |-> "analyze_table", connection_type |-> connection_type,
                      name |-> t, flag |-> f, plan |-> plan,
                      exc |-> r.exc, table |-> r.table, cached |-> DOMAIN r.h.tc,
                      sf |-> r.h.sf, ff |-> r.h.ff, built |-> r.h.built]
    /\ UNCHANGED <<sap_tables, sap_forkey, table_cache, relationship_cache, first_table,
                   environment_vars>>

SpecBacking ==
    /\ Init
    /\ [][\/ DoAnalyzeOverConnection
          \/ Return]_vars

EncodeList(s, Encode(_)) ==
    [type |-> "array", items |-> [i \in 1..Len(s) |-> Encode(s[i])]]

EncodeString(s) == [type |-> "string", value |-> s]

\* SAPRelationship, and the dict of one in SAPTable.foreign_keys
EncodeRelationship(rel) ==
    [type |-> "object",
     members |-> [from_table        |-> EncodeString(rel.from_table),
                  to_table          |-> EncodeString(rel.to_table),
                  relationship_type |-> EncodeString(rel.relationship_type),
                  cardinality       |-> EncodeString(rel.cardinality)]]

EncodeField(field) ==
    [type |-> "object",
     members |-> [name      |-> EncodeString(field.name),
                  length    |-> [type |-> "number", value |-> field.length],
                  key_field |-> [type |-> IF field.key_field THEN "true" ELSE "false"]]]

EncodeTable(table) ==
    [type |-> "object",
     members |-> [name         |-> EncodeString(table.name),
                  fields       |-> EncodeList(table.fields, EncodeField),
                  foreign_keys |-> EncodeList(table.foreign_keys, EncodeRelationship)]]

\* a custom object, by the fields the analyzer's rows carry
EncodeObject(obj) ==
    [type |-> "object",
     members |-> [object_type |-> EncodeString(obj.OBJECT_TYPE),
                  package     |-> EncodeString(obj.DEVCLASS)]]

\* a serialization that leaves the custom objects out
SerializeWithoutObjects(result) ==
    [type |-> "object",
     members |-> [tables        |-> EncodeList(result.tables, EncodeTable),
                  relationships |-> EncodeList(result.relationships, EncodeRelationship)]]

\* SAPAnalysisResult.json()
Serialize(result) ==
    [type |-> "object",
     members |-> [tables         |-> EncodeList(result.tables, EncodeTable),
                  relationships  |-> EncodeList(result.relationships, EncodeRelationship),
                  custom_objects |-> EncodeList(result.custom_objects, EncodeObject)]]

\* validation of one member: a required str field
IsString(object, key) ==
    key \in DOMAIN object.members /\ object.members[key].type = "string"

\* the decoders: [ok, value] for one element
DecodeRelationship(json) ==
    IF /\ json.type = "object"
       /\ \A key \in {"from_table", "to_table", "relationship_type"} : IsString(json, key)
    THEN [ok |-> TRUE,
          value |-> [from_table        |-> json.members.from_table.value,
                     to_table          |-> json.members.to_table.value,
                     relationship_type |-> json.members.relationship_type.value,
                     cardinality       |-> IF IsString(json, "cardinality")
                                           THEN json.members.cardinality.value
                                           ELSE "1:N"]]
    ELSE [ok |-> FALSE, value |-> SAPRelationship("", "")]

\* a List[...] field of the object: [ok, value]; a field that is absent takes
\* its default_factory, list
DecodeList(object, key, Decode(_)) ==
    IF key \notin DOMAIN object.members THEN [ok |-> TRUE, value |-> <<>>]
    ELSE IF object.members[key].type # "array" THEN [ok |-> FALSE, value |-> <<>>]
    ELSE Only({ [ok    |-> \A i \in 1..Len(ds) : ds[i].ok,
                 value |-> [i \in 1..Len(ds) |-> ds[i].value]] :
                ds \in {[i \in 1..Len(object.members[key].items) |->
                            Decode(object.members[key].items[i])]} })

DecodeField(json) ==
    IF /\ json.type = "object" /\ IsString(json, "name")
       /\ "length" \in DOMAIN json.members /\ json.members.length.type = "number"
    THEN [ok |-> TRUE,
          value |-> [name      |-> json.members.name.value,
                     length    |-> json.members.length.value,
                     key_field |-> /\ "key_field" \in DOMAIN json.members
                                   /\ json.members.key_field.type = "true"]]
    ELSE [ok |-> FALSE, value |-> [name |-> <<>>, length |-> 0, key_field |-> FALSE]]

DecodeTable(json) ==
    IF json.type = "object" /\ IsString(json, "name")
    THEN Only({ [ok    |-> fields.ok /\ foreign_keys.ok,
                 value |-> [name         |-> json.members.name.value,
                            fields       |-> fields.value,
                            foreign_keys |-> foreign_keys.value]] :
                fields \in {DecodeList(json, "fields", DecodeField)},
                foreign_keys \in {DecodeList(json, "foreign_keys", DecodeRelationship)} })
    ELSE [ok |-> FALSE, value |-> NoTable]

DecodeObject(json) ==
    IF json.type = "object" /\ IsString(json, "object_type")
    THEN [ok |-> TRUE,
          value |-> [OBJECT_TYPE |-> json.members.object_type.value,
                     DEVCLASS    |-> IF IsString(json, "package")
                                     THEN json.members.package.value ELSE ""]]
    ELSE [ok |-> FALSE, value |-> [OBJECT_TYPE |-> "", DEVCLASS |-> ""]]

\* SAPAnalysisResult.parse_raw(text): [exc, result]
Parse(json) ==
    Only({ IF tables.ok /\ relationships.ok /\ custom_objects.ok
           THEN [exc |-> NoExc,
                 result |-> [tables         |-> tables.value,
                             relationships  |-> relationships.value,
                             custom_objects |-> custom_objects.value]]
           ELSE [exc |-> "ValidationError", result |-> NoResult] :
           tables \in {DecodeList(json, "tables", DecodeTable)},
           relationships \in {DecodeList(json, "relationships", DecodeRelationship)},
           custom_objects \in {DecodeList(json, "custom_objects", DecodeObject)} })

\* the caller of generate_full_analysis serializes the result it got and
\* parses the text back
DoRoundTrip ==
    /\ last.op = "generate_full_analysis"
    /\ last.exc = NoExc
    /\ \E result \in {[tables         |-> last.tables,
                       relationships  |-> last.relationships,
                       custom_objects |-> last.custom_objects]} :
         \E p \in {Parse(Serialize(result))} :
           last' = [op |-> "round_trip", result |-> result,
                    exc |-> p.exc, parsed |-> p.result]
    /\ UNCHANGED <<sap_tables, sap_forkey, table_cache, relationship_cache, first_table,
                   environment_vars>>

SpecRoundTrip ==
    /\ Init
    /\ [][\/ DoGenerateFullAnalysis
          \/ DoRoundTrip
          \/ DoClearCache
          \/ Return]_vars

InitStructure ==
    /\ sap_tables \in [Tables -> {"table", "empty", "no_header", "markers",
                                  "reordered", "bad_leng", "no_leng"}]
    /\ sap_forkey = [t \in Tables |-> IF t = "ZORDER" THEN {"ZCUSTOMER", ""}
                                      ELSE IF t = "ZCUSTOMER" THEN {"ZITEM"}
                                      ELSE {"ZORDER"}]
    /\ Fresh

SpecStructure ==
    /\ InitStructure
    /\ [][\/ DoAnalyzeTable
          \/ DoClearCache
          \/ Return]_vars

\* the rows with a field name that does not begin with the sentinel, in order
NamedRows(rows) ==
    SelectSeq(rows, LAMBDA row : row.FIELDNAME # <<>> /\ Head(row.FIELDNAME) # ".")

\* C22: the field list of the Table that analyze_table returns has one field
\* per row of the fetched structure whose field name is neither empty nor
\* begins with '.', in the order of the rows, each with the name of its row;
\* no other row is dropped, none is added, none is moved.
C22_FieldsAreNamedRowsInOrder ==
    (last.op = "analyze_table" /\ last.exc = NoExc) =>
        LET kept == NamedRows(DD03P_TAB(last.name))
        IN  /\ Len(last.table.fields) = Len(kept)
            /\ \A i \in 1..Len(kept) :
                  /\ last.table.fields[i].name = kept[i].FIELDNAME
                  /\ last.table.fields[i].key_field =
                        ("KEYFLAG" \in DOMAIN kept[i] /\ kept[i].KEYFLAG = "X")

\* four rows, the first an include marker: the fields are ID, CLIENT and NAME
C22_Witness ==
    /\ last.op = "analyze_table"
    /\ last.exc = NoExc
    /\ sap_tables[last.name] = "reordered"
    /\ last.sf # <<>>
    /\ Len(DD03P_TAB(last.name)) = 4
    /\ Len(last.table.fields) = 3
    /\ last.table.fields[1].name = <<"I", "D">>
    /\ last.table.fields[1].length = 10
    /\ last.table.fields[3].length = 0

\* ============================================================ relationships
\* a relationship as the per-table fetch for table t makes it
FromTable(rel, t) ==
    /\ rel.from_table = t
    /\ rel.to_table # ""
    /\ rel.relationship_type = "FOREIGN_KEY"
    /\ rel.cardinality = "N:1"

\* C23: every Relationship the relationship cache holds under key T, and so
\* every relationship attached to a Table or put into an AnalysisResult, has
\* from_table T, a non-empty to_table, the kind FOREIGN_KEY and the
\* cardinality N:1; a foreign-key row without a check table gives no
\* relationship, so T has at most one relationship per row with a check table
\* and each leads to a check table of T.
C23_RelationshipsOfTheirTable ==
    /\ \A T \in DOMAIN relationship_cache :
          /\ \A i \in 1..Len(relationship_cache[T]) : FromTable(relationship_cache[T][i], T)
          /\ Len(relationship_cache[T]) <= Cardinality(DirectTargets(T))
          /\ CachedTargets(T) \subseteq DirectTargets(T)
    /\ \A T \in DOMAIN table_cache :
          \A i \in 1..Len(table_cache[T].foreign_keys) :
              FromTable(table_cache[T].foreign_keys[i], T)
    /\ (last.op = "analyze_table" /\ last.exc = NoExc) =>
          \A i \in 1..Len(last.table.foreign_keys) :
              FromTable(last.table.foreign_keys[i], last.name)
    /\ last.op \in {"analyze_multiple_tables", "generate_full_analysis"} =>
          /\ \A k \in 1..Len(last.tables) :
                \A i \in 1..Len(last.tables[k].foreign_keys) :
                    FromTable(last.tables[k].foreign_keys[i], last.tables[k].name)
          /\ \A j \in 1..Len(last.relationships) :
                \E k \in 1..Len(last.tables) :
                    FromTable(last.relationships[j], last.tables[k].name)

\* ZORDER has a row to ZCUSTOMER and a row without a check table: one
\* relationship is cached, attached to the Table and part of the result
C23_Witness ==
    /\ last.op = "generate_full_analysis"
    /\ sap_forkey["ZORDER"] = {"ZCUSTOMER", ""}
    /\ Len(ForkeyRows("ZORDER")) = 2
    /\ "ZORDER" \in DOMAIN relationship_cache
    /\ relationship_cache["ZORDER"] = <<SAPRelationship("ZORDER", "ZCUSTOMER")>>
    /\ \E k \in 1..Len(last.tables) :
          /\ last.tables[k].name = "ZORDER"
          /\ Len(last.tables[k].foreign_keys) = 1
    /\ Len(last.relationships) >= 1

\* ====================================================== the depth of detail
\* the relationships of the result that come from table n
RelationshipsFrom(rels, n) == SelectSeq(rels, LAMBDA rel : rel.from_table = n)

\* C24: the first call's depth of detail wins for the cache lifetime.  A first
\* analyze_table(N, FALSE) caches N's Table without foreign keys; while the
\* cache holds that Table, which is until clear_cache, every analyze_table(N,
\* TRUE) and every generate_full_analysis whose names contain N returns N's
\* Table with an empty foreign_keys list, and generate_full_analysis reports
\* the relationships its relationship fetch for N yields in
\* result.relationships, once for each time it lists N's Table.
C24_FirstDepthOfDetailWins ==
    [][/\ (/\ last'.op = "analyze_table" /\ ~last'.flag /\ last'.exc = NoExc
           /\ last'.name \notin DOMAIN table_cache) =>
              /\ last'.table.foreign_keys = <<>>
              /\ table_cache'[last'.name] = last'.table
              /\ first_table'[last'.name] = last'.table
       /\ \A N \in DOMAIN table_cache :
            table_cache[N].foreign_keys = <<>> =>
              /\ last'.op # "clear_cache" =>
                    (N \in DOMAIN table_cache' /\ table_cache'[N] = table_cache[N])
              /\ (last'.op = "analyze_table" /\ last'.name = N) =>
                    /\ last'.exc = NoExc
                    /\ last'.table.foreign_keys = <<>>
              /\ (last'.op = "generate_full_analysis" /\ N \in Range(last'.names)) =>
                    /\ last'.exc = NoExc
                    /\ \E k \in 1..Len(last'.tables) : last'.tables[k].name = N
                    /\ \A k \in 1..Len(last'.tables) :
                          last'.tables[k].name = N => last'.tables[k].foreign_keys = <<>>
                    /\ N \in DOMAIN relationship_cache'
                    /\ Len(RelationshipsFrom(last'.relationships, N)) =
                          Len(relationship_cache'[N])
                          * Len(SelectSeq(last'.names, LAMBDA n : n = N))
                    /\ \A j \in 1..Len(relationship_cache'[N]) :
                          relationship_cache'[N][j] \in Range(last'.relationships)]_vars

\* ZORDER was analyzed first without relationships; generate_full_analysis
\* fetches its foreign key to ZCUSTOMER and reports it, with a Table of
\* ZORDER that lists none
C24_Witness ==
    /\ last.op = "generate_full_analysis"
    /\ "ZORDER" \in Range(last.names)
    /\ last.sf = <<>>
    /\ \E i \in 1..Len(last.ff) : last.ff[i] = [name |-> "ZORDER", exc |-> NoExc]
    /\ \E k \in 1..Len(last.tables) :
          last.tables[k].name = "ZORDER" /\ last.tables[k].foreign_keys = <<>>
    /\ SAPRelationship("ZORDER", "ZCUSTOMER") \in Range(last.relationships)
    /\ first_table["ZORDER"].foreign_keys = <<>>

\* ======================================================== memoized failures
\* whether the call c asked the transport for the foreign keys of t
AskedForkey(c, t) == \E i \in 1..Len(c.ff) : c.ff[i].name = t

\* C25: a failed relationship fetch is memoized like a successful one.  When
\* the foreign-key fetch for T has raised, the relationship cache holds an
\* empty list under T; while it does, which is until clear_cache, no
\* analyze_table, analyze_multiple_tables, find_related_tables or
\* generate_full_analysis asks the transport for the foreign keys of T again,
\* whatever the transport would answer now, and each treats T as having no
\* relationships: an analyze_table(T, TRUE) that misses the table cache gives
\* a Table without foreign keys, find_related_tables from T finds nothing and
\* expands nothing beyond T, generate_full_analysis reports no relationship
\* from T.
C25_FailedFetchIsMemoized ==
    [][/\ \A i \in 1..Len(last'.ff) :
            last'.ff[i].exc # NoExc =>
               /\ last'.ff[i].name \in DOMAIN relationship_cache'
               /\ relationship_cache'[last'.ff[i].name] = <<>>
       /\ \A T \in DOMAIN relationship_cache :
            (relationship_cache[T] = <<>> /\ last'.op \notin {"clear_cache", "idle"}) =>
               /\ T \in DOMAIN relationship_cache'
               /\ relationship_cache'[T] = <<>>
               /\ ~AskedForkey(last', T)
               /\ (/\ last'.op = "analyze_table" /\ last'.name = T /\ last'.flag
                   /\ T \notin DOMAIN table_cache /\ last'.exc = NoExc) =>
                      last'.table.foreign_keys = <<>>
               /\ (last'.op = "find_related_tables" /\ last'.name = T) =>
                      /\ last'.related = <<>>
                      /\ Range(last'.expanded) \subseteq {T}
               /\ last'.op = "generate_full_analysis" =>
                      \A j \in 1..Len(last'.relationships) :
                          last'.relationships[j].from_table # T]_vars

\* the foreign-key fetch for a table with foreign keys failed in an earlier
\* call; now nothing fails, analyze_table(T, TRUE) misses the table cache,
\* fetches the structure, asks for no foreign keys and gives none
C25_Witness ==
    /\ last.op = "analyze_table"
    /\ last.flag
    /\ last.exc = NoExc
    /\ last.sf = <<[name |-> last.name, exc |-> NoExc]>>
    /\ last.ff = <<>>
    /\ DirectTargets(last.name) # {}
    /\ last.table.foreign_keys = <<>>
    /\ relationship_cache[last.name] = <<>>

\* ============================================================ failed calls
\* C26: analyze_table fails atomically.  Whatever makes it fail (a connection
\* that cannot be established, a structure fetch that raises, a table that is
\* not found, a field row that cannot be converted), it raises
\* SAPTableNotFoundError or SAPMetadataError and no other exception, and the
\* table cache and the relationship cache are after the call what they were
\* before it.
C26_FailsAtomically ==
    [][(last'.op = "analyze_table" /\ last'.exc # NoExc) =>
          /\ last'.exc \in {"SAPTableNotFoundError", "SAPMetadataError"}
          /\ table_cache' = table_cache
          /\ relationship_cache' = relationship_cache
          /\ last'.table = NoTable]_vars

\* the structure was fetched, a row has a LENG that is no number:
\* SAPMetadataError, both caches holding what earlier calls left
C26_Witness ==
    /\ last.op = "analyze_table"
    /\ last.flag
    /\ last.exc = "SAPMetadataError"
    /\ sap_tables[last.name] = "bad_leng"
    /\ last.sf = <<[name |-> last.name, exc |-> NoExc]>>
    /\ last.ff = <<>>
    /\ table_cache # EmptyDict
    /\ relationship_cache # EmptyDict
    /\ last.name \notin DOMAIN table_cache
    /\ last.name \notin DOMAIN relationship_cache

\* C27: a cache hit has no effect.  analyze_table(N, f) with N in the table
\* cache returns the cached Table without a call to the connection (no
\* structure fetch, no relationship fetch, and so no connect or disconnect)
\* and leaves the table cache and the relationship cache as they were, for
\* both values of f.
C27_CacheHitHasNoEffect ==
    [][(last'.op = "analyze_table" /\ last'.name \in DOMAIN table_cache) =>
          /\ last'.exc = NoExc
          /\ last'.table = table_cache[last'.name]
          /\ last'.sf = <<>>
          /\ last'.ff = <<>>
          /\ last'.built = <<>>
          /\ table_cache' = table_cache
          /\ relationship_cache' = relationship_cache]_vars

\* a hit with relationships asked for, on a Table cached without them, while
\* the relationship cache has no entry for the table; the dictionary has
\* foreign keys for it
C27_Witness ==
    /\ last.op = "analyze_table"
    /\ last.flag
    /\ last.exc = NoExc
    /\ last.sf = <<>>
    /\ last.name \in DOMAIN table_cache
    /\ last.table = table_cache[last.name]
    /\ last.table.foreign_keys = <<>>
    /\ last.name \notin DOMAIN relationship_cache
    /\ DirectTargets(last.name) # {}

\* ============================================================ nested scopes
\* Application code that nests connection scopes on one RFCClient: here scope
\* is the code's position, the number of scopes that are open (depth) and
\* whether an exception is on its way out of them (pc = "raising").

\* most scopes open at once
MaxNesting == 2

\* the text of the SAPRFCError that call_function or its fallback raises
CallFunctionMessage(client, function_name, http_ok) ==
    IF client.connection = "None" THEN "Conexão RFC não estabelecida"
    ELSE IF function_name = "RFC_PING" THEN "Ping falhou"
    ELSE IF function_name = "RFC_READ_TABLE"
    THEN "HTTP fallback não configurado para RFC_READ_TABLE"
    ELSE "Função RFC não suportada no modo fallback HTTP"

\* the requests call_function sends to the SAP system: the ping asks
\* _http_fallback.test_connection(), RFC_READ_TABLE the OData service; the
\* other functions are answered locally
RemoteCalls(client, function_name) ==
    IF client.connection = "None" \/ ~client.http_fallback THEN <<>>
    ELSE IF function_name = "RFC_PING" THEN <<"test_connection">>
    ELSE IF function_name = "RFC_READ_TABLE" THEN <<"get">>
    ELSE <<>>

\* a scope that disconnects only when it is the outermost one
DisconnectsOutermostOnly(client, depth) ==
    IF depth = 1 THEN Disconnect(client) ELSE client

\* "finally: self.disconnect()" of the scope that is the depth-th open one
LeavesConnection(client, depth) == Disconnect(client)

InitNesting ==
    /\ sap_tables = Known
    /\ sap_forkey = [t \in Tables |-> {}]
    /\ table_cache = EmptyDict
    /\ relationship_cache = EmptyDict
    /\ first_table = EmptyDict
    /\ last = Call("idle")
    /\ \E has_base_url \in BOOLEAN : rfc_client = NewRFCClient(has_base_url)
    /\ scope = [pc |-> "running", depth |-> 0]
    /\ ShellAtRest

\* "with client.connection_context():" is entered; when connect() raises, the
\* finally clause runs and the exception goes to the code around the scope,
\* which handles it or is a scope body that it leaves
EnterContext ==
    /\ scope.pc = "running"
    /\ scope.depth < MaxNesting
    /\ \E http_ok, handled \in BOOLEAN :
         \E c \in {IF rfc_client.connection = "None"
                   THEN Connect(rfc_client, http_ok)
                   ELSE [client |-> rfc_client, exc |-> NoExc]} :
           IF c.exc = NoExc
           THEN /\ rfc_client' = c.client
                /\ scope' = [scope EXCEPT !.depth = @ + 1]
           ELSE /\ rfc_client' = LeavesConnection(c.client, scope.depth + 1)
                /\ scope' = [scope EXCEPT !.pc = IF scope.depth = 0 \/ handled
                                                 THEN "running" ELSE "raising"]
    /\ UNCHANGED <<sap_tables, sap_forkey, table_cache, relationship_cache, first_table, last,
                   files, environ, llm_client, menu>>

\* client.call_function(...), inside the open scopes or outside any; the code
\* around the call handles a SAPRFCError or is a scope body that it leaves
CallInContext ==
    /\ scope.pc = "running"
    /\ \E function_name \in {"RFC_PING", "RFC_SYSTEM_INFO", "RFC_READ_TABLE",
                             "DDIF_TABL_GET", "DDIF_FORKEY_GET"} :
         \E http_ok, handled \in BOOLEAN :
           \E exc \in {CallFunction(rfc_client, function_name, http_ok)} :
             /\ last' = [op            |-> "call_function",
                         function_name |-> function_name,
                         depth         |-> scope.depth,
                         connection    |-> rfc_client.connection,
                         exc           |-> exc,
                         message       |-> IF exc = NoExc THEN ""
                                           ELSE CallFunctionMessage(rfc_client,
                                                                    function_name, http_ok),
                         remote        |-> RemoteCalls(rfc_client, function_name)]
             /\ scope' = [scope EXCEPT !.pc = IF exc = NoExc \/ scope.depth = 0 \/ handled
                                              THEN "running" ELSE "raising"]
    /\ UNCHANGED <<sap_tables, sap_forkey, table_cache, relationship_cache, first_table,
                   rfc_client, files, environ, llm_client, menu>>

\* the innermost open scope is left, by the end of its body or by the
\* exception that is on its way out
LeaveContext ==
    /\ scope.depth >= 1
    /\ rfc_client' = LeavesConnection(rfc_client, scope.depth)
    /\ \E handled \in BOOLEAN :
         scope' = [pc    |-> IF scope.pc = "raising" /\ scope.depth > 1 /\ ~handled
                             THEN "raising" ELSE "running",
                   depth |-> scope.depth - 1]
    /\ UNCHANGED <<sap_tables, sap_forkey, table_cache, relationship_cache, first_table, last,
                   files, environ, llm_client, menu>>

SpecNesting ==
    /\ InitNesting
    /\ [][\/ EnterContext
          \/ CallInContext
          \/ LeaveContext]_vars

\* C28: the connection scope is not re-entrant.  Leaving a scope disconnects
\* the client also when an outer scope on the same client is still open, and
\* a call_function made while the client has no connection, inside an open
\* scope or outside any, raises SAPRFCError "connection not established"
\* without sending anything to the SAP system.
C28_ScopeIsNotReentrant ==
    /\ [][scope'.depth < scope.depth => rfc_client'.connection = "None"]_vars
    /\ [](last.op = "call_function" =>
            /\ last.connection = "None" =>
                  /\ last.exc = "SAPRFCError"
                  /\ last.message = "Conexão RFC não estabelecida"
                  /\ last.remote = <<>>
            /\ last.remote # <<>> => last.connection # "None")

\* an outer scope is still open, its client can connect, the inner scope was
\* left: the ping made in the outer scope fails, nothing being sent
C28_Witness ==
    /\ last.op = "call_function"
    /\ last.function_name = "RFC_PING"
    /\ last.depth = 1
    /\ rfc_client.http_fallback
    /\ last.connection = "None"
    /\ last.exc = "SAPRFCError"
    /\ last.remote = <<>>
    /\ scope.depth = 1

\* ====================================================== the shipped client
\* The analyzer over the RFCClient of the repository: what a method meets
\* when its scopes connect this client and its calls go to call_function.
\* DDIF_TABL_GET is answered with the simulated structure for every name.
ShippedPlan(client, http_ok) ==
    Only({ IF c.exc # NoExc
           THEN [down |-> TRUE, struct_error |-> {}, forkey_error |-> {}]
           ELSE [down         |-> FALSE,
                 struct_error |-> IF CallFunction(c.client, "DDIF_TABL_GET", http_ok) # NoExc
                                  THEN Tables ELSE {},
                 forkey_error |-> IF CallFunction(c.client, "DDIF_FORKEY_GET", http_ok) # NoExc
                                  THEN Tables ELSE {}] :
           c \in {Connect(client, http_ok)} })

\* the SAP system has foreign keys; the client has a base_url or none
InitShipped ==
    /\ sap_tables = Known
    /\ \E d \in Dictionaries : sap_forkey = d.forkey
    /\ table_cache = EmptyDict
    /\ relationship_cache = EmptyDict
    /\ first_table = EmptyDict
    /\ last = Call("idle")
    /\ \E has_base_url \in BOOLEAN : rfc_client = NewRFCClient(has_base_url)
    /\ scope = NoScope
    /\ ShellAtRest

ShippedAnalyzeTable ==
    /\ Idle
    /\ \E http_ok, f \in BOOLEAN, t \in Tables :
         AnalyzeTableCall(t, f, ShippedPlan(rfc_client, http_ok))

ShippedFindRelatedTables ==
    /\ Idle
    /\ \E http_ok \in BOOLEAN, t \in Tables, d \in 0..MaxDepth, order \in Orders :
         FindRelatedTablesCall(t, d, order, ShippedPlan(rfc_client, http_ok))

ShippedGenerateFullAnalysis ==
    /\ Idle
    /\ \E http_ok, f \in BOOLEAN, names \in NameLists :
         GenerateFullAnalysisCall(names, f, ShippedPlan(rfc_client, http_ok))

SpecShipped ==
    /\ InitShipped
    /\ [][\/ ShippedAnalyzeTable
          \/ ShippedFindRelatedTables
          \/ ShippedGenerateFullAnalysis
          \/ DoClearCache
          \/ Return]_vars

\* C29: with the RFC client of the repository relationship discovery never
\* finds anything.  Every DDIF_FORKEY_GET the analyzer asks for fails, with
\* SAPRFCError once the client is connected, and the analyzer swallows it: no
\* method raises for it, every relationship list kept or attached to a Table
\* is empty, find_related_tables returns the empty list for every root and
\* depth, generate_full_analysis returns no relationships.
C29_ShippedClientFindsNoRelationships ==
    /\ \A i \in 1..Len(last.ff) :
          last.ff[i].exc \in {"SAPRFCError", "SAPConnectionError"}
    /\ \A T \in DOMAIN relationship_cache : relationship_cache[T] = <<>>
    /\ \A T \in DOMAIN table_cache : table_cache[T].foreign_keys = <<>>
    /\ last.op = "analyze_table" => last.table.foreign_keys = <<>>
    /\ last.op = "find_related_tables" => (last.exc = NoExc /\ last.related = <<>>)
    /\ last.op = "generate_full_analysis" =>
          /\ last.relationships = <<>>
          /\ \A k \in 1..Len(last.tables) : last.tables[k].foreign_keys = <<>>

\* the root has foreign keys in the SAP system and the client connects: the
\* one foreign-key call raises SAPRFCError, the traversal to depth 3 stops at
\* the root and returns nothing
C29_Witness ==
    /\ last.op = "find_related_tables"
    /\ last.depth = 3
    /\ DirectTargets(last.name) \ {last.name} # {}
    /\ last.ff = <<[name |-> last.name, exc |-> "SAPRFCError"]>>
    /\ last.expanded = <<last.name>>
    /\ last.related = <<>>
    /\ relationship_cache[last.name] = <<>>

\* ============================================================ the .env file
\* the names in a hand-written .env, in the order of their lines: LLM
\* settings, the default environment, connection parameters of DEV (the host,
\* and the password under a name the program does not use), and settings of
\* other programs
ConfigNames ==
    << <<"GROQ", "API", "KEY">>, <<"DEFAULT", "PROVIDER">>,
       <<"SAP", "DEFAULT", "ENVIRONMENT">>, <<"SAP", "DEV", "ASHOST">>,
       <<"SAP", "DEV", "PASSWORD">>, <<"SAP", "LANGUAGE">>, <<"ZCUSTOM">> >>

\* no .env, or one with a comment, a line for each name of a set and a line
\* without "="
InitConfig ==
    /\ sap_tables = Known
    /\ sap_forkey = [t \in Tables |-> {}]
    /\ table_cache = EmptyDict
    /\ relationship_cache = EmptyDict
    /\ first_table = EmptyDict
    /\ last = Call("idle")
    /\ rfc_client = NewRFCClient(TRUE)
    /\ scope = NoScope
    /\ environ = EmptyDict
    /\ llm_client = NoClient
    /\ menu = NoMenu
    /\ \/ files = EmptyDict
       \/ \E S \in SUBSET Range(ConfigNames) :
            \E names \in {SelectSeq(ConfigNames, LAMBDA k : k \in S)} :
              files = Put(EmptyDict, FilePath(".", ".env"),
                          <<Comment("my settings")>>
                          \o [i \in 1..Len(names) |-> Pair(names[i], "old")]
                          \o <<[kind |-> "other", key |-> <<>>, value |-> "export"]>>)

\* save_config(updates); when the file cannot be opened it raises ConfigError
DoSaveConfig ==
    /\ Idle
    /\ \E U \in SUBSET {<<"DEFAULT", "PROVIDER">>, <<"SAP", "DEV", "ASHOST">>,
                        <<"SAP", "QAS", "TIMEOUT">>, <<"LOG", "LEVEL">>} :
         \E disk_ok \in BOOLEAN, env_path \in {FilePath(".", ".env")} :
           /\ files' = IF disk_ok THEN SaveConfig(files, [k \in U |-> "new"]) ELSE files
           /\ last' = [op      |-> "save_config",
                       updates |-> [k \in U |-> "new"],
                       before  |-> IF env_path \in DOMAIN files THEN files[env_path] ELSE <<>>,
                       exc     |-> IF disk_ok THEN NoExc ELSE "ConfigError"]
    /\ UNCHANGED <<sap_tables, sap_forkey, table_cache, relationship_cache, first_table,
                   rfc_client, scope, environ, llm_client, menu>>

SpecConfig ==
    /\ InitConfig
    /\ [][\/ DoSaveConfig
          \/ Return]_vars

\* the NAME=value lines of a file
PairLines(lines) == SelectSeq(lines, LAMBDA line : line.kind = "pair")

\* C30: save_config(updates) is a merge into the file.  After it has returned
\* the file holds exactly the keys that were in the file before united with
\* the keys of updates, each on exactly one line, with the value of updates
\* where updates has the key and the value the file had otherwise; no key the
\* file had is lost, whatever its name.
C30_SaveConfigIsAMerge ==
    (last.op = "save_config" /\ last.exc = NoExc) =>
        LET before == PairLines(last.before)
            after  == PairLines(files[FilePath(".", ".env")])
            keys   == {before[i].key : i \in 1..Len(before)} \cup DOMAIN last.updates
        IN  /\ {after[i].key : i \in 1..Len(after)} = keys
            /\ Len(after) = Cardinality(keys)
            /\ \A i \in 1..Len(after) :
                  IF after[i].key \in DOMAIN last.updates
                  THEN after[i].value = last.updates[after[i].key]
                  ELSE \E j \in 1..Len(before) :
                          before[j].key = after[i].key /\ before[j].value = after[i].value

====
